---------------------------- MODULE Spec2Model ----------------------------
(***************************************************************************)
(* Field extraction and merge engine of the OCR service.                   *)
(*                                                                         *)
(* Strings are sequences of one-character strings, so that trimming,       *)
(* upper-casing, whitespace collapsing and regular-expression search are   *)
(* computed character by character as the Python code computes them.       *)
(* A dict is a function whose DOMAIN is its key set; a missing key is a    *)
(* key outside the DOMAIN.                                                 *)
(***************************************************************************)
EXTENDS Integers, Sequences, FiniteSets, TLC

VARIABLES
    \* ---- one call of smart_merge_fields (services/ocr_merge.py)
    mpc,             \* "call" before the call, "merged" after it returned
    tipo_documento,  \* argument tipo_documento
    fields_tpl,      \* argument fields_tpl   (template source)
    fields_auto,     \* argument fields_auto  (layout source)
    fields_text,     \* argument fields_text  (free-text source)
    fields,          \* returned final field map
    decisions,       \* returned decision log
    \* ---- one call of extract_fields (services/parsers.py) and its caller's default
    fpc,             \* "call" before the call, "returned" after it, "handed" after the default
    f_tipo,          \* argument tipo_documento
    f_raw_text,      \* argument raw_text
    f_export,        \* argument export
    f_out,           \* the dict out the body has built
    f_ret,           \* the returned value
    f_auto,          \* the caller's fields_auto
    \* ---- one call of detect_type (services/parsers.py)
    dpc,             \* "call" before the call, "returned" after it
    d_text,          \* argument text
    d_type,          \* returned type
    \* ---- the /extract handler (routers/ocr.py) and the document store
    rpc,             \* the handler's position
    request,         \* the form of the request being served
    loc,             \* the handler's local variables
    made,            \* the calls the handler has made for this request
    store,           \* the documents saved so far, in order
    response,        \* the response of the request
    \* ---- one call of _coerce_geom and of Word (services/parsers.py)
    gpc,             \* "call", "returned", "word" (a Word was built), "again"
    g_geom,          \* argument geom
    g_rect,          \* the returned rectangle
    g_word,          \* Word("A", 0, geom)
    g_again,         \* _coerce_geom of the flat form of the returned rectangle
    \* ---- calls of _build_lines_from_export and of _find_label (services/parsers.py)
    lpc,             \* "call", "built", "both" (the reordered export was built too), "found"
    l_export,        \* argument export
    l_other,         \* the same pages with their blocks and lines in another order
    l_lines,         \* the lines built from export
    l_lines2,        \* _build_lines_from_export of the reordered export
    l_aliases,       \* argument aliases of _find_label
    l_hit,           \* _find_label(lines, aliases)
    \* ---- calls of _post_process_document_fields (services/extractor.py)
    cpc,             \* "call", "cleaned", "again" (the output was cleaned once more)
    c_tipo,          \* argument tipo_documento
    c_fields,        \* argument fields
    c_once,          \* the returned field map
    c_twice,         \* _post_process_document_fields of the returned field map
    c_prefixed,      \* fields with a label prefix of the field put before each value
    c_labelled,      \* _post_process_document_fields(tipo_documento, c_prefixed)
    \* ---- the template store (services/template_boxes.py) and extract_by_template
    tpc,             \* the last operation: "start", "extract", "save", "refused", "reload"
    ALLOW_OVERRIDES, \* the flag read from OCR_TPL_OVERRIDES at import
    overrides_file,  \* the content of data/ocr/templates_override.json
    TEMPLATES,       \* the module global TEMPLATES
    base_templates,  \* the module global BASE_TEMPLATES
    t_last,          \* the last call of extract_by_template: its arguments and outcome
    t_kept,          \* an earlier call of extract_by_template, kept to compare with
    \* ---- _find_label and the two collectors (services/parsers.py)
    kpc,             \* "call", "built", "found", "right", "below"
    k_tipo,          \* the document type whose labels are used
    k_export,        \* argument export
    k_lines,         \* _build_lines_from_export(export)
    k_key,           \* the field whose label is looked for
    k_hit,           \* _find_label(lines, labels[key])
    k_max,           \* argument max_lines
    k_right,         \* _collect_right_same_line(hit, stop_at)
    k_below,         \* _collect_below_until_next_label(lines, hit, stop_at, max_lines)
    \* ---- the document repository (storage/repository.py) over the bucket
    bucket_docs,     \* the objects docs/<archivoID>.json: archivoID -> document
    bucket_users,    \* the objects users/<usuarioID>.json: usuarioID -> index
    now,             \* the last value time.time() returned
    r_recent,        \* per user and type, the document saved or patched last
    r_last,          \* the last repository call: its name, arguments and result
    spc,             \* per concurrent save, the statement it is at
    s_doc,           \* per concurrent save, its local doc
    s_idx,           \* per concurrent save, its local idx
    \* ---- the text-only strategy and the merge on the text of an acta
    apc,             \* "call", "text", "merged"
    a_raw_text,      \* argument raw_text
    a_text,          \* fields_text = extract_fields_text_only("acta", raw_text)
    a_tpl,           \* fields_tpl
    a_out            \* smart_merge_fields("acta", fields_tpl, {}, fields_text)

mergeVars == <<mpc, tipo_documento, fields_tpl, fields_auto, fields_text, fields, decisions>>

fieldVars == <<fpc, f_tipo, f_raw_text, f_export, f_out, f_ret, f_auto>>

detectVars == <<dpc, d_text, d_type>>

routerVars == <<rpc, request, loc, made, store, response>>

geomVars == <<gpc, g_geom, g_rect, g_word, g_again>>

\* the calls of the layout helpers, of the field cleaner and of the template store
layoutVars == <<lpc, l_export, l_other, l_lines, l_lines2, l_aliases, l_hit>>

cleanVars == <<cpc, c_tipo, c_fields, c_once, c_twice, c_prefixed, c_labelled>>

tplVars == <<tpc, ALLOW_OVERRIDES, overrides_file, TEMPLATES, base_templates, t_last, t_kept>>

collectVars == <<kpc, k_tipo, k_export, k_lines, k_key, k_hit, k_max, k_right, k_below>>

repoVars == <<bucket_docs, bucket_users, now, r_recent, r_last, spc, s_doc, s_idx>>

actaVars == <<apc, a_raw_text, a_text, a_tpl, a_out>>

restVars == <<collectVars, repoVars, actaVars>>

lastVars == <<cleanVars, tplVars, restVars>>

laterVars == <<geomVars, layoutVars, lastVars>>

\* the calls of the merge, of extract_fields, of detect_type and the handler
earlierVars == <<mergeVars, fieldVars, detectVars, routerVars>>

vars == <<earlierVars, laterVars>>

-----------------------------------------------------------------------------
(* Bounds of the model *)

\* width of the whitespace run around a padded value handed to the merge
MaxPad == 1

-----------------------------------------------------------------------------
(* Characters and strings *)

UpperLetters ==
    <<"A", "B", "C", "D", "E", "F", "G", "H", "I", "J", "K", "L", "M", "N", "O", "P", "Q", "R", "S", "T", "U", "V", "W", "X", "Y", "Z">>

LowerLetters ==
    <<"a", "b", "c", "d", "e", "f", "g", "h", "i", "j", "k", "l", "m", "n", "o", "p", "q", "r", "s", "t", "u", "v", "w", "x", "y", "z">>

UpperSet == {UpperLetters[i] : i \in 1..26}

LowerSet == {LowerLetters[i] : i \in 1..26}

DigitSet == {"0", "1", "2", "3", "4", "5", "6", "7", "8", "9"}

AlnumUpperSet == UpperSet \cup DigitSet

\* Python's \s restricted to the whitespace the model uses
WhiteSet == {" ", "\n", "\t"}

\* Python's \w: letters, digits and underscore
WordSet == UpperSet \cup LowerSet \cup DigitSet \cup {"_"}

EmptyStr == << >>

\* str.upper() on one character
UpperChar(c) ==
    IF c \in LowerSet
    THEN UpperLetters[CHOOSE i \in 1..26 : LowerLetters[i] = c]
    ELSE c

\* str.upper()
StrUpper(s) == [i \in 1..Len(s) |-> UpperChar(s[i])]

\* str.strip(): drop leading and trailing whitespace
StrStrip(s) ==
    LET keep == {i \in 1..Len(s) : s[i] \notin WhiteSet}
    IN  IF keep = {} THEN EmptyStr
        ELSE LET lo == CHOOSE i \in keep : \A j \in keep : i <= j
                 hi == CHOOSE i \in keep : \A j \in keep : j <= i
             IN  SubSeq(s, lo, hi)

\* s[pos .. pos+Len(w)-1] = w
HasAt(s, pos, w) ==
    /\ pos + Len(w) - 1 <= Len(s)
    /\ \A i \in 1..Len(w) : s[pos + i - 1] = w[i]

-----------------------------------------------------------------------------
(* Regular expressions.  A pattern is a sequence of alternatives; an       *)
(* alternative is a sequence of items between two optional \b anchors.     *)
(* An item is a choice of literal strings, a character class repeated      *)
(* lo..hi times, an inner \b, or ^.  re.search is leftmost, and for the patterns of  *)
(* this program (tokens closed by \b, fixed-length bodies, one greedy      *)
(* optional tail) the leftmost match it returns is the longest one.        *)

Lit(strs) == [k |-> "lit", strs |-> strs]

Cls(cls, lo, hi) == [k |-> "cls", cls |-> cls, lo |-> lo, hi |-> hi]

\* \b inside an alternative
InnerB == [k |-> "b"]

\* ^ under re.M
LineStart == [k |-> "bol"]

Alt(pre, items, post) == [pre |-> pre, items |-> items, post |-> post]

MinOf(a, b) == IF a <= b THEN a ELSE b

\* \b between s[p-1] and s[p]
WordBoundary(s, p) ==
    LET before == p - 1 >= 1 /\ p - 1 <= Len(s) /\ s[p - 1] \in WordSet
        after  == p >= 1 /\ p <= Len(s) /\ s[p] \in WordSet
    IN  before # after

RECURSIVE ItemEnds(_, _, _, _)
\* positions just after a match of items[k..] that starts at pos
ItemEnds(items, k, s, pos) ==
    IF k > Len(items) THEN {pos}
    ELSE LET it == items[k]
         IN  IF it.k = "lit"
             THEN UNION {ItemEnds(items, k + 1, s, pos + Len(w)) :
                            w \in {x \in it.strs : HasAt(s, pos, x)}}
             ELSE IF it.k = "bol"
             THEN IF pos = 1 \/ (pos - 1 <= Len(s) /\ s[pos - 1] = "\n")
                  THEN ItemEnds(items, k + 1, s, pos) ELSE {}
             ELSE IF it.k = "b"
             THEN IF WordBoundary(s, pos) THEN ItemEnds(items, k + 1, s, pos) ELSE {}
             ELSE UNION {ItemEnds(items, k + 1, s, pos + n) :
                            n \in {m \in it.lo..MinOf(it.hi, Len(s) - pos + 1) :
                                      \A i \in 0..(m - 1) : s[pos + i] \in it.cls}}

AltEnds(alt, s, pos) ==
    IF alt.pre /\ ~WordBoundary(s, pos) THEN {}
    ELSE {e \in ItemEnds(alt.items, 1, s, pos) : alt.post => WordBoundary(s, e)}

PatEnds(pat, s, pos) == UNION {AltEnds(pat[a], s, pos) : a \in 1..Len(pat)}

\* bool(re.search(pat, s))
ReSearch(pat, s) == \E pos \in 1..(Len(s) + 1) : PatEnds(pat, s, pos) # {}

\* re.search(pat, s).group(0), for an s where the search succeeds
ReGroup0(pat, s) ==
    LET starts == {pos \in 1..(Len(s) + 1) : PatEnds(pat, s, pos) # {}}
        st     == CHOOSE p \in starts : \A q \in starts : p <= q
        ends   == PatEnds(pat, s, st)
        en     == CHOOSE e \in ends : \A f \in ends : f <= e
    IN  SubSeq(s, st, en - 1)

RECURSIVE ReRemoveFrom(_, _, _)
\* re.sub(pat, "", s) from position i on, for a pattern that matches no empty string
ReRemoveFrom(pat, s, i) ==
    LET starts == {pos \in i..(Len(s) + 1) : PatEnds(pat, s, pos) # {}}
    IN  IF starts = {} THEN SubSeq(s, i, Len(s))
        ELSE LET st == CHOOSE p \in starts : \A q \in starts : p <= q
                 ends == PatEnds(pat, s, st)
                 en == CHOOSE e \in ends : \A f \in ends : f <= e
             IN  SubSeq(s, i, st - 1) \o ReRemoveFrom(pat, s, en)

\* re.sub(pat, "", s)
ReRemove(pat, s) == ReRemoveFrom(pat, s, 1)

\* pat = None
NoPattern == << >>

CurpStateCodes ==
    { <<"A", "S">>, <<"B", "C">>, <<"B", "S">>, <<"C", "C">>, <<"C", "S">>, <<"C", "H">>,
      <<"C", "L">>, <<"C", "M">>, <<"C", "O">>, <<"D", "F">>, <<"D", "G">>, <<"G", "J">>,
      <<"G", "T">>, <<"G", "R">>, <<"H", "G">>, <<"J", "C">>, <<"M", "C">>, <<"M", "N">>,
      <<"M", "S">>, <<"N", "T">>, <<"N", "L">>, <<"O", "C">>, <<"P", "L">>, <<"Q", "T">>,
      <<"Q", "R">>, <<"S", "P">>, <<"S", "L">>, <<"S", "R">>, <<"T", "C">>, <<"T", "S">>,
      <<"T", "L">>, <<"V", "Z">>, <<"Y", "N">>, <<"Z", "S">>, <<"N", "E">> }

\* [A-Z]{4}\d{6}[HM](AS|BC|...|NE)[A-Z]{3}[0-9A-Z]\d
CURP_REGEX ==
    << Alt(FALSE,
          << Cls(UpperSet, 4, 4), Cls(DigitSet, 6, 6), Lit({<<"H">>, <<"M">>}),
             Lit(CurpStateCodes), Cls(UpperSet, 3, 3), Cls(AlnumUpperSet, 1, 1),
             Cls(DigitSet, 1, 1) >>,
          FALSE) >>

Century == Lit({<<"1", "9">>, <<"2", "0">>})

\* \b(19|20)\d{2}\b
YEAR_REGEX == << Alt(TRUE, << Century, Cls(DigitSet, 2, 2) >>, TRUE) >>

DateSep == Cls({"/", "-"}, 1, 1)

\* \b\d{2}[\/\-]\d{2}[\/\-](19|20)\d{2}\b
DATE_REGEX ==
    << Alt(TRUE,
          << Cls(DigitSet, 2, 2), DateSep, Cls(DigitSet, 2, 2), DateSep,
             Century, Cls(DigitSet, 2, 2) >>,
          TRUE) >>

\* \b(19|20)\d{2}(?:\s*[-ndash]\s*(19|20)\d{2})?\b   (the merge's own VIG_REGEX)
VIG_REGEX ==
    << Alt(TRUE, << Century, Cls(DigitSet, 2, 2) >>, TRUE),
      Alt(TRUE,
          << Century, Cls(DigitSet, 2, 2), Cls(WhiteSet, 0, 64),
             Cls({"-", "ndash"}, 1, 1), Cls(WhiteSet, 0, 64),
             Century, Cls(DigitSet, 2, 2) >>,
          TRUE) >>

\* \b\d{1,5}\b
SECCION_REGEX == << Alt(TRUE, << Cls(DigitSet, 1, 5) >>, TRUE) >>

\* \b(H|M|HOMBRE|MUJER)\b
SEXO_REGEX ==
    << Alt(TRUE,
          << Lit({ <<"H">>, <<"M">>, <<"H", "O", "M", "B", "R", "E">>,
                   <<"M", "U", "J", "E", "R">> }) >>,
          TRUE) >>

\* \b[A-Z0-9]{8,20}\b   (inline pattern of clave_elector)
CLAVE_ELECTOR_REGEX == << Alt(TRUE, << Cls(AlnumUpperSet, 8, 20) >>, TRUE) >>

-----------------------------------------------------------------------------
(* Dicts *)

EmptyDict == [k \in {} |-> EmptyStr]

\* (d.get(name) or "")
DictGetOrEmpty(d, name) == IF name \in DOMAIN d THEN d[name] ELSE EmptyStr

\* d.update(e): the keys of e take e's values
DictUpdate(d, e) ==
    [k \in (DOMAIN d) \cup (DOMAIN e) |-> IF k \in DOMAIN e THEN e[k] ELSE d[k]]

\* d.setdefault(k, v) for every k of the sequence ks
DictSetDefaults(d, ks, v) ==
    [k \in (DOMAIN d) \cup {ks[i] : i \in 1..Len(ks)} |-> IF k \in DOMAIN d THEN d[k] ELSE v]

-----------------------------------------------------------------------------
(* services/ocr_merge.py *)

\* _ok(pat, val)
_ok(pat, val) ==
    IF val = EmptyStr THEN FALSE
    ELSE IF pat = NoPattern THEN TRUE
    ELSE ReSearch(pat, StrUpper(val))

\* a plausible slip: the fallback to the first non-empty source is left out
ChooseNoFallback(name, pat, tpl, auto, text) ==
    LET t == StrStrip(DictGetOrEmpty(tpl, name))
        a == StrStrip(DictGetOrEmpty(auto, name))
        x == StrStrip(DictGetOrEmpty(text, name))
        pick == IF _ok(pat, t) THEN <<"template", t>>
                ELSE IF _ok(pat, a) THEN <<"auto", a>>
                ELSE IF _ok(pat, x) THEN <<"text", x>>
                ELSE <<"none", EmptyStr>>
    IN  [field |-> name, chosen_from |-> pick[1], value |-> pick[2]]

\* _choose(name, pat, fields_tpl, fields_auto, fields_text, out_fields, decisions):
\* the decision it appends; out_fields[name] is set to the decision's value
_choose(name, pat, tpl, auto, text) ==
    LET t == StrStrip(DictGetOrEmpty(tpl, name))
        a == StrStrip(DictGetOrEmpty(auto, name))
        x == StrStrip(DictGetOrEmpty(text, name))
        pick == IF pat # NoPattern
                THEN IF _ok(pat, t) THEN <<"template", t>>
                     ELSE IF _ok(pat, a) THEN <<"auto", a>>
                     ELSE IF _ok(pat, x) THEN <<"text", x>>
                     ELSE IF t # EmptyStr THEN <<"template", t>>
                     ELSE IF a # EmptyStr THEN <<"auto", a>>
                     ELSE IF x # EmptyStr THEN <<"text", x>>
                     ELSE <<"none", EmptyStr>>
                ELSE IF t # EmptyStr THEN <<"template", t>>
                     ELSE IF a # EmptyStr THEN <<"auto", a>>
                     ELSE <<"text", x>>
    IN  [field |-> name, chosen_from |-> pick[1], value |-> pick[2]]

Call(name, pat) == [name |-> name, pat |-> pat]

\* the _choose calls of the branch tipo_documento == "ine", in order
IneCalls ==
    << Call("nombre", NoPattern), Call("sexo", SEXO_REGEX), Call("domicilio", NoPattern),
       Call("clave_elector", CLAVE_ELECTOR_REGEX), Call("curp", CURP_REGEX),
       Call("anio_registro", YEAR_REGEX), Call("fecha_nacimiento", DATE_REGEX),
       Call("seccion", SECCION_REGEX), Call("vigencia", VIG_REGEX) >>

\* the _choose calls of the branch tipo_documento == "curp", in order
CurpCalls ==
    << Call("curp", CURP_REGEX), Call("nombre", NoPattern),
       Call("entidad_registro", NoPattern) >>

\* the (k, pat) list of the branch tipo_documento == "acta", in order
ActaCalls ==
    << Call("curp", CURP_REGEX), Call("entidad_registro", NoPattern),
       Call("municipio_registro", NoPattern), Call("nombres", NoPattern),
       Call("primer_apellido", NoPattern), Call("segundo_apellido", NoPattern),
       Call("sexo", SEXO_REGEX), Call("fecha_nacimiento", DATE_REGEX),
       Call("lugar_nacimiento", NoPattern) >>

\* a plausible slip: a declared field is forgotten in the curp branch
ChooseCallsShort(tipo) ==
    IF tipo = "ine" THEN IneCalls
    ELSE IF tipo = "curp" THEN SubSeq(CurpCalls, 1, 2)
    ELSE IF tipo = "acta" THEN ActaCalls
    ELSE << >>

\* the _choose calls smart_merge_fields makes for a fixed-field type
ChooseCalls(tipo) ==
    IF tipo = "ine" THEN IneCalls
    ELSE IF tipo = "curp" THEN CurpCalls
    ELSE IF tipo = "acta" THEN ActaCalls
    ELSE << >>

\* a plausible slip: the catch-all type gets no declared-field defaults
ExpectedKeysFixedOnly(tipo) ==
    IF tipo = "ine"
    THEN << "nombre", "sexo", "domicilio", "clave_elector", "curp", "anio_registro",
            "fecha_nacimiento", "seccion", "vigencia" >>
    ELSE IF tipo = "curp" THEN << "curp", "nombre", "entidad_registro" >>
    ELSE IF tipo = "acta"
    THEN << "curp", "entidad_registro", "municipio_registro", "nombres",
            "primer_apellido", "segundo_apellido", "sexo", "fecha_nacimiento",
            "lugar_nacimiento" >>
    ELSE << >>

\* expected_keys_map.get(tipo_documento, [])
expected_keys_map(tipo) ==
    IF tipo = "ine"
    THEN << "nombre", "sexo", "domicilio", "clave_elector", "curp", "anio_registro",
            "fecha_nacimiento", "seccion", "vigencia" >>
    ELSE IF tipo = "curp" THEN << "curp", "nombre", "entidad_registro" >>
    ELSE IF tipo = "acta"
    THEN << "curp", "entidad_registro", "municipio_registro", "nombres",
            "primer_apellido", "segundo_apellido", "sexo", "fecha_nacimiento",
            "lugar_nacimiento" >>
    ELSE IF tipo = "otros"
    THEN << "titulo", "fecha_documento", "rfc_detectado", "curp_detectada", "folio",
            "emisor" >>
    ELSE << >>

\* every key the model's dicts may hold, in the order the dicts hold them
AllKeys ==
    << "nombre", "sexo", "domicilio", "clave_elector", "curp", "anio_registro",
       "fecha_nacimiento", "seccion", "vigencia", "entidad_registro",
       "municipio_registro", "nombres", "primer_apellido", "segundo_apellido",
       "lugar_nacimiento", "titulo", "fecha_documento", "rfc_detectado",
       "curp_detectada", "folio", "emisor", "extra" >>

\* the keys of a dict in iteration order, those of skip left out
KeysInOrder(d, skip) ==
    LET Keep(k) == k \in DOMAIN d /\ k \notin skip
    IN  SelectSeq(AllKeys, Keep)

\* a plausible slip: the chosen source is looked up in the fixed-field order
\* template, auto, text while the value still comes from the text-first merge
OtrosMergeSrcOrder(tpl, auto, text) ==
    LET merged == DictUpdate(DictUpdate(tpl, auto), text)
        order  == KeysInOrder(tpl, {}) \o KeysInOrder(auto, DOMAIN tpl)
                    \o KeysInOrder(text, (DOMAIN tpl) \cup (DOMAIN auto))
        Src(k) == IF k \in DOMAIN tpl THEN "template"
                  ELSE IF k \in DOMAIN auto THEN "auto"
                  ELSE IF k \in DOMAIN text THEN "text"
                  ELSE "none"
    IN  [fields    |-> merged,
         decisions |-> [i \in 1..Len(order) |->
                          [field |-> order[i], chosen_from |-> Src(order[i]),
                           value |-> merged[order[i]]]]]

\* the catch-all branch: merged = tpl, then auto, then text on top; one decision
\* per key of merged, in insertion order
OtrosMerge(tpl, auto, text) ==
    LET merged == DictUpdate(DictUpdate(tpl, auto), text)
        order  == KeysInOrder(tpl, {}) \o KeysInOrder(auto, DOMAIN tpl)
                    \o KeysInOrder(text, (DOMAIN tpl) \cup (DOMAIN auto))
        Src(k) == IF k \in DOMAIN text THEN "text"
                  ELSE IF k \in DOMAIN auto THEN "auto"
                  ELSE IF k \in DOMAIN tpl THEN "template"
                  ELSE "none"
    IN  [fields    |-> merged,
         decisions |-> [i \in 1..Len(order) |->
                          [field |-> order[i], chosen_from |-> Src(order[i]),
                           value |-> merged[order[i]]]]]

\* the fixed-field branches: the decisions of the _choose calls, and out_fields
FixedMerge(tipo, tpl, auto, text) ==
    LET calls == ChooseCalls(tipo)
        ds    == [i \in 1..Len(calls) |-> _choose(calls[i].name, calls[i].pat, tpl, auto, text)]
    IN  [fields    |-> [k \in {calls[i].name : i \in 1..Len(calls)} |->
                          LET i == CHOOSE j \in 1..Len(calls) :
                                      /\ calls[j].name = k
                                      /\ \A h \in 1..Len(calls) : calls[h].name = k => h <= j
                          IN  ds[i].value],
         decisions |-> ds]

\* smart_merge_fields(tipo_documento, fields_tpl, fields_auto, fields_text)
\*   -> (fields, decisions)
smart_merge_fields(tipo, tpl, auto, text) ==
    LET r == IF tipo = "otros" THEN OtrosMerge(tpl, auto, text)
             ELSE FixedMerge(tipo, tpl, auto, text)
    IN  [fields    |-> DictSetDefaults(r.fields, expected_keys_map(tipo), EmptyStr),
         decisions |-> r.decisions]

-----------------------------------------------------------------------------
(* The calls of smart_merge_fields the model makes *)

Tipos == {"ine", "curp", "acta", "otros", "pasaporte"}

FixedTipos == {"ine", "curp", "acta"}

Sources == <<"template", "auto", "text">>

\* two candidate values of a field: for a field with a validation pattern the
\* first satisfies it (sexo's only once upper-cased) and the second does not
Cores(k) ==
    IF k = "sexo" THEN << <<"m">>, <<"X">> >>
    ELSE IF k = "clave_elector" THEN << <<"A", "B", "C", "D", "1", "2", "3", "4">>, <<"A", "B", "1", "2">> >>
    ELSE IF k = "curp" THEN << <<"A", "B", "C", "D", "8", "0", "0", "1", "0", "1", "H", "D", "F", "R", "R", "L", "0", "9">>, <<"A", "B", "C", "D", "8", "0", "0", "1", "0", "1", "X", "D", "F", "R", "R", "L", "0", "9">> >>
    ELSE IF k = "anio_registro" THEN << <<"2", "0", "1", "5">>, <<"1", "8", "1", "5">> >>
    ELSE IF k = "fecha_nacimiento" THEN << <<"0", "5", "/", "0", "7", "/", "1", "9", "9", "0">>, <<"5", "/", "7", "/", "9", "0">> >>
    ELSE IF k = "seccion" THEN << <<"1", "2", "3", "4">>, <<"1", "2", "3", "4", "5", "6">> >>
    ELSE IF k = "vigencia" THEN << <<"2", "0", "2", "0", " ", "-", " ", "2", "0", "3", "0">>, <<"2", "0", "-", "3", "0">> >>
    ELSE IF k = "folio" THEN << <<"A", "1", "-", "X">>, <<"A", "1">> >>
    ELSE << <<"A", "N", "A">>, <<"L", "U", "Z">> >>

\* p whitespace characters
PadStr(p) == [i \in 1..p |-> IF i % 2 = 1 THEN " " ELSE "\n"]

\* the key is absent from the dict
Missing == << "<missing>" >>

\* what one source may hold for key k: nothing, "", whitespace only, or a
\* candidate value, bare or between MaxPad whitespace characters on each side
ValuesFor(k) ==
    {Missing, EmptyStr, PadStr(MaxPad)}
      \cup {Cores(k)[c] : c \in 1..2}
      \cup {PadStr(MaxPad) \o Cores(k)[c] \o PadStr(MaxPad) : c \in 1..2}

\* the keys a call for type t is given: its declared fields and an undeclared one
CandidateKeys(t) ==
    {expected_keys_map(t)[i] : i \in 1..Len(expected_keys_map(t))} \cup {"extra"}

ExtraValue == << "Z", "Z" >>

\* a source's dict: the value v of key k (if any), and the undeclared key when
\* this source is the one that carries it
InputDict(k, v, carriesExtra) ==
    [x \in (IF v = Missing THEN {} ELSE {k}) \cup (IF carriesExtra THEN {"extra"} ELSE {})
        |-> IF x = k /\ v # Missing THEN v ELSE ExtraValue]

\* no call of smart_merge_fields is modelled
MergeIdle ==
    /\ mpc = "off"
    /\ tipo_documento = ""
    /\ fields_tpl = EmptyDict
    /\ fields_auto = EmptyDict
    /\ fields_text = EmptyDict
    /\ fields = EmptyDict
    /\ decisions = << >>

\* no call of extract_fields is modelled
FieldsIdle ==
    /\ fpc = "off"
    /\ f_tipo = ""
    /\ f_raw_text = EmptyStr
    /\ f_export = [nonempty |-> FALSE, pages |-> << >>]
    /\ f_out = EmptyDict
    /\ f_ret = [is_none |-> TRUE, dict |-> EmptyDict]
    /\ f_auto = EmptyDict

\* no call of detect_type is modelled
DetectIdle ==
    /\ dpc = "off"
    /\ d_text = EmptyStr
    /\ d_type = ""

\* the handler's locals before it has assigned any
LocInit ==
    [forced_type |-> "", raw_text |-> EmptyStr,
     export |-> [nonempty |-> FALSE, pages |-> << >>],
     detected_type |-> "", fields_tpl |-> EmptyDict, pre_meta |-> "None",
     fields_auto |-> EmptyDict, fields_text |-> EmptyDict,
     fields |-> EmptyDict, decisions |-> << >>]

NoCalls ==
    [template |-> 0, template_errors |-> 0, extract_fields |-> 0,
     extract_fields_text_only |-> 0, smart_merge_fields |-> 0, save |-> 0]

NoRequest == [tipo_documento |-> "<none>", usuarioID |-> "", content |-> "empty", debug |-> FALSE]

NoResponse == [status |-> 0]

\* no request is modelled
RouterIdle ==
    /\ rpc = "off"
    /\ request = NoRequest
    /\ loc = LocInit
    /\ made = NoCalls
    /\ store = << >>
    /\ response = NoResponse

GeomIdle ==
    /\ gpc = "off"
    /\ g_geom = << >>
    /\ g_rect = << >>
    /\ g_word = << >>
    /\ g_again = << >>

LayoutIdle ==
    /\ lpc = "off"
    /\ l_export = << >>
    /\ l_other = << >>
    /\ l_lines = << >>
    /\ l_lines2 = << >>
    /\ l_aliases = << >>
    /\ l_hit = << >>

CleanIdle ==
    /\ cpc = "off"
    /\ c_tipo = ""
    /\ c_fields = << >>
    /\ c_once = << >>
    /\ c_twice = << >>
    /\ c_prefixed = << >>
    /\ c_labelled = << >>

TplIdle ==
    /\ tpc = "off"
    /\ ALLOW_OVERRIDES = FALSE
    /\ overrides_file = << >>
    /\ TEMPLATES = << >>
    /\ base_templates = << >>
    /\ t_last = << >>
    /\ t_kept = << >>

CollectIdle ==
    /\ kpc = "off"
    /\ k_tipo = ""
    /\ k_export = << >>
    /\ k_lines = << >>
    /\ k_key = ""
    /\ k_hit = << >>
    /\ k_max = 0
    /\ k_right = << >>
    /\ k_below = << >>

RepoIdle ==
    /\ bucket_docs = << >>
    /\ bucket_users = << >>
    /\ now = 0
    /\ r_recent = << >>
    /\ r_last = << >>
    /\ spc = << >>
    /\ s_doc = << >>
    /\ s_idx = << >>

ActaIdle ==
    /\ apc = "off"
    /\ a_raw_text = << >>
    /\ a_text = << >>
    /\ a_tpl = << >>
    /\ a_out = << >>

RestIdle ==
    /\ CollectIdle
    /\ RepoIdle
    /\ ActaIdle

LastIdle ==
    /\ CleanIdle
    /\ TplIdle
    /\ RestIdle

LaterIdle ==
    /\ GeomIdle
    /\ LayoutIdle
    /\ LastIdle

EarlierIdle ==
    /\ MergeIdle
    /\ FieldsIdle
    /\ DetectIdle
    /\ RouterIdle

MergeInit ==
    /\ mpc = "call"
    /\ tipo_documento \in Tipos
    /\ \E k \in CandidateKeys(tipo_documento) :
       \E vt \in ValuesFor(k), va \in ValuesFor(k), vx \in ValuesFor(k) :
       \E extraIn \in {"template", "auto", "nowhere"} :
          /\ fields_tpl  = InputDict(k, vt, extraIn = "template")
          /\ fields_auto = InputDict(k, va, extraIn = "auto")
          /\ fields_text = InputDict(k, vx, extraIn = "text")
    /\ fields = EmptyDict
    /\ decisions = << >>
    /\ FieldsIdle
    /\ DetectIdle
    /\ RouterIdle
    /\ LaterIdle

\* fields, decisions = smart_merge_fields(tipo_documento, fields_tpl, fields_auto, fields_text)
MergeCall ==
    /\ mpc = "call"
    /\ LET r == smart_merge_fields(tipo_documento, fields_tpl, fields_auto, fields_text)
       IN  /\ fields' = r.fields
           /\ decisions' = r.decisions
    /\ mpc' = "merged"
    /\ UNCHANGED <<tipo_documento, fields_tpl, fields_auto, fields_text, fieldVars, detectVars, routerVars, laterVars>>

MergeNext == MergeCall

SpecMerge == MergeInit /\ [][MergeNext]_vars

-----------------------------------------------------------------------------
(* Properties of smart_merge_fields, stated on the state after the call *)

Merged == mpc = "merged"

\* the input dict of a source
InputOf(src) ==
    IF src = "template" THEN fields_tpl
    ELSE IF src = "auto" THEN fields_auto
    ELSE fields_text

\* the trimmed value a source holds for a field ("" when it holds none)
Trimmed(src, k) == StrStrip(DictGetOrEmpty(InputOf(src), k))

\* the declared field set of a fixed-field type, as the specification lists it
DeclaredFields(t) ==
    IF t = "ine"
    THEN {"nombre", "sexo", "domicilio", "clave_elector", "curp", "anio_registro",
          "fecha_nacimiento", "seccion", "vigencia"}
    ELSE IF t = "curp" THEN {"curp", "nombre", "entidad_registro"}
    ELSE IF t = "acta"
    THEN {"curp", "entidad_registro", "municipio_registro", "nombres", "primer_apellido",
          "segundo_apellido", "sexo", "fecha_nacimiento", "lugar_nacimiento"}
    ELSE {}

\* the validation pattern of a declared field (NoPattern when it has none)
PatternOf(t, k) ==
    IF k = "sexo" /\ t \in {"ine", "acta"} THEN SEXO_REGEX
    ELSE IF k = "curp" THEN CURP_REGEX
    ELSE IF k = "fecha_nacimiento" /\ t \in {"ine", "acta"} THEN DATE_REGEX
    ELSE IF k = "clave_elector" THEN CLAVE_ELECTOR_REGEX
    ELSE IF k = "anio_registro" THEN YEAR_REGEX
    ELSE IF k = "seccion" THEN SECCION_REGEX
    ELSE IF k = "vigencia" THEN VIG_REGEX
    ELSE NoPattern

\* the positions of the decisions about field k
DecisionsAbout(k) == {i \in 1..Len(decisions) : decisions[i].field = k}

\* a trimmed value satisfies a pattern: the search _ok runs, on the upper-cased value
Satisfies(pat, v) == v # EmptyStr /\ ReSearch(pat, StrUpper(v))

\* the first position of the priority order (a sequence of sources) that is in S
FirstOf(order, S) == CHOOSE i \in S : \A j \in S : i <= j

InputKeys == (DOMAIN fields_tpl) \cup (DOMAIN fields_auto) \cup (DOMAIN fields_text)

\* C1: for ine, curp and acta and every declared field with a validation pattern,
\* the chosen source is the first of template, auto, text whose trimmed value is
\* non-empty and satisfies the pattern; if none does, the first whose trimmed value
\* is non-empty; the final value is that source's trimmed value.  (A value
\* satisfies the pattern when the search _ok runs on it succeeds.)
C1_PatternPriority ==
    (Merged /\ tipo_documento \in FixedTipos) =>
      \A k \in DeclaredFields(tipo_documento) :
        LET pat      == PatternOf(tipo_documento, k)
            matching == {j \in 1..3 : Satisfies(pat, Trimmed(Sources[j], k))}
            nonempty == {j \in 1..3 : Trimmed(Sources[j], k) # EmptyStr}
        IN  (pat # NoPattern /\ nonempty # {}) =>
              LET j == FirstOf(Sources, IF matching # {} THEN matching ELSE nonempty)
              IN  /\ Cardinality(DecisionsAbout(k)) = 1
                  /\ \A i \in DecisionsAbout(k) :
                        /\ decisions[i].chosen_from = Sources[j]
                        /\ decisions[i].value = Trimmed(Sources[j], k)
                  /\ k \in DOMAIN fields
                  /\ fields[k] = Trimmed(Sources[j], k)

\* C1 witness: a pattern field where template and text hold non-empty values that
\* do not satisfy the pattern, only auto's does, and auto was chosen
C1_Witness ==
    /\ Merged
    /\ tipo_documento \in FixedTipos
    /\ \E k \in DeclaredFields(tipo_documento) :
          LET pat == PatternOf(tipo_documento, k)
          IN  /\ pat # NoPattern
              /\ Trimmed("template", k) # EmptyStr
              /\ Trimmed("text", k) # EmptyStr
              /\ ~Satisfies(pat, Trimmed("template", k))
              /\ ~Satisfies(pat, Trimmed("text", k))
              /\ Satisfies(pat, Trimmed("auto", k))
              /\ \E i \in DecisionsAbout(k) : decisions[i].chosen_from = "auto"

\* C2: for ine, curp and acta and every declared field, with or without a pattern:
\* when template, auto and text all hold an empty or missing value for it, the
\* decision records value "" and chosen source "none"
C2_AllEmptyIsNone ==
    (Merged /\ tipo_documento \in FixedTipos) =>
      \A k \in DeclaredFields(tipo_documento) :
        (\A j \in 1..3 : DictGetOrEmpty(InputOf(Sources[j]), k) = EmptyStr) =>
          /\ DecisionsAbout(k) # {}
          /\ \A i \in DecisionsAbout(k) :
                /\ decisions[i].value = EmptyStr
                /\ decisions[i].chosen_from = "none"

OtrosOrder == <<"text", "auto", "template">>

\* C3: for otros, every key of the union of the three maps resolves with priority
\* text > auto > template: the final value is the value of the first source in that
\* order holding a non-empty value for the key, and the decision names that source
C3_OtrosFirstNonEmpty ==
    (Merged /\ tipo_documento = "otros") =>
      \A k \in InputKeys :
        LET holds == {j \in 1..3 : DictGetOrEmpty(InputOf(OtrosOrder[j]), k) # EmptyStr}
        IN  holds # {} =>
              LET j == FirstOf(OtrosOrder, holds)
              IN  /\ k \in DOMAIN fields
                  /\ fields[k] = InputOf(OtrosOrder[j])[k]
                  /\ DecisionsAbout(k) # {}
                  /\ \A i \in DecisionsAbout(k) :
                        /\ decisions[i].chosen_from = OtrosOrder[j]
                        /\ decisions[i].value = InputOf(OtrosOrder[j])[k]

\* C4 as stated: ine, curp and acta get every declared field as a key of the final
\* map, while for otros the final key set is exactly the union of the input keys
C4_OtrosKeysAreInputKeys ==
    Merged =>
      /\ tipo_documento \in FixedTipos =>
            \A k \in DeclaredFields(tipo_documento) :
               /\ k \in DOMAIN fields
               /\ (k \notin InputKeys => fields[k] = EmptyStr)
      /\ tipo_documento = "otros" => DOMAIN fields = InputKeys

OtrosDeclared ==
    {"titulo", "fecha_documento", "rfc_detectado", "curp_detectada", "folio", "emisor"}

\* C4 amended: declared-field defaults are applied for ine, curp, acta and otros
\* alike: every declared field is a key of the final map ("" when no source
\* supplied it); for otros the final key set is the union of the input keys and the
\* six declared otros fields, and a key absent from all inputs has value ""
C4_DefaultsForDeclaredTypes ==
    Merged =>
      /\ tipo_documento \in FixedTipos =>
            \A k \in DeclaredFields(tipo_documento) :
               /\ k \in DOMAIN fields
               /\ (k \notin InputKeys => fields[k] = EmptyStr)
      /\ tipo_documento = "otros" =>
            /\ DOMAIN fields = InputKeys \cup OtrosDeclared
            /\ \A k \in OtrosDeclared \ InputKeys : fields[k] = EmptyStr

\* C4 witness: an otros call whose result holds a declared key no input supplied,
\* next to a key the inputs did supply
C4_Witness ==
    /\ Merged
    /\ tipo_documento = "otros"
    /\ InputKeys # {}
    /\ \E k \in DOMAIN fields : k \notin InputKeys /\ fields[k] = EmptyStr

\* C5: for ine, curp and acta the decision log holds exactly one decision per
\* declared field (9, 3, 9) and none for any other field, the final key set is the
\* declared field set, and undeclared input keys never appear in the output
C5_OneDecisionPerDeclaredField ==
    (Merged /\ tipo_documento \in FixedTipos) =>
      /\ \A k \in DeclaredFields(tipo_documento) : Cardinality(DecisionsAbout(k)) = 1
      /\ \A i \in 1..Len(decisions) : decisions[i].field \in DeclaredFields(tipo_documento)
      /\ Len(decisions) = (IF tipo_documento = "curp" THEN 3 ELSE 9)
      /\ DOMAIN fields = DeclaredFields(tipo_documento)

\* C5 witness: a fixed-field call given an undeclared key with a value
C5_Witness ==
    /\ Merged
    /\ tipo_documento \in FixedTipos
    /\ \E k \in InputKeys : k \notin DeclaredFields(tipo_documento)
    /\ \E k \in InputKeys : k \in DeclaredFields(tipo_documento)
    /\ Len(decisions) > 0

\* C6: for every type, each decision's value is the final map's value of its field;
\* when the chosen source is template, auto or text the value equals, up to
\* surrounding whitespace, what that source's input holds for the field (nothing
\* held counting as ""); and the chosen source is "none" only if the value is ""
C6_Provenance ==
    Merged =>
      \A i \in 1..Len(decisions) :
        LET d == decisions[i]
        IN  /\ d.field \in DOMAIN fields
            /\ fields[d.field] = d.value
            /\ d.chosen_from \in {"template", "auto", "text", "none"}
            /\ d.chosen_from # "none" =>
                  StrStrip(d.value) = Trimmed(d.chosen_from, d.field)
            /\ d.chosen_from = "none" => d.value = EmptyStr

\* C6 witness: a decision that took a non-empty value from a source holding it
\* with surrounding whitespace, while another source holds a different value
C6_Witness ==
    /\ Merged
    /\ \E i \in 1..Len(decisions) :
          LET d == decisions[i]
          IN  /\ d.chosen_from \in {"auto", "text"}
              /\ d.value # EmptyStr
              /\ InputOf(d.chosen_from)[d.field] # d.value
              /\ \E s \in {"template", "auto", "text"} :
                    /\ s # d.chosen_from
                    /\ Trimmed(s, d.field) \notin {EmptyStr, d.value}

-----------------------------------------------------------------------------
(* services/parsers.py: text normalizer and layout model.  Coordinates are *)
(* thousandths of the unit square (0.01 is 10).                            *)

SetMin(S) == CHOOSE x \in S : \A y \in S : x <= y

SetMax(S) == CHOOSE x \in S : \A y \in S : y <= x

\* the elements of a finite set of numbers, ascending
Ascending(S) ==
    [r \in 1..Cardinality(S) |-> CHOOSE i \in S : Cardinality({j \in S : j < i}) = r - 1]

\* unidecode() on one character, for the accented characters the model uses
UnidecodeChar(c) ==
    IF c = "Ntilde" THEN "N"
    ELSE IF c = "ntilde" THEN "n"
    ELSE IF c = "Oacute" THEN "O"
    ELSE IF c = "oacute" THEN "o"
    ELSE IF c = "Uacute" THEN "U"
    ELSE IF c = "uacute" THEN "u"
    ELSE c

RECURSIVE CollapseFrom(_, _, _, _)
\* re.sub(r"[cls]{n,}", " ", s) from position i on: every maximal run of n or more
\* characters of cls becomes one blank
CollapseFrom(s, cls, n, i) ==
    IF i > Len(s) THEN EmptyStr
    ELSE IF s[i] \in cls
         THEN LET e == SetMax({j \in i..Len(s) : \A h \in i..j : s[h] \in cls})
              IN  (IF e - i + 1 >= n THEN << " " >> ELSE SubSeq(s, i, e))
                     \o CollapseFrom(s, cls, n, e + 1)
         ELSE << s[i] >> \o CollapseFrom(s, cls, n, i + 1)

\* _norm(s): unidecode, upper-case, collapse whitespace runs, strip
_norm(s) ==
    LET u == [i \in 1..Len(s) |-> UpperChar(UnidecodeChar(s[i]))]
    IN  StrStrip(CollapseFrom(u, WhiteSet, 1, 1))

\* _clean_inline(s): _norm, then runs of two or more blanks to one
_clean_inline(s) == CollapseFrom(_norm(s), WhiteSet, 2, 1)

RECURSIVE JoinFrom(_, _, _)
\* sep.join(strs[i:])
JoinFrom(strs, sep, i) ==
    IF i > Len(strs) THEN EmptyStr
    ELSE IF i = Len(strs) THEN strs[i]
    ELSE strs[i] \o sep \o JoinFrom(strs, sep, i + 1)

\* sep.join(strs)
StrJoin(strs, sep) == JoinFrom(strs, sep, 1)

RECURSIVE Flatten(_)
\* the concatenation of a sequence of sequences
Flatten(ss) == IF ss = << >> THEN << >> ELSE Head(ss) \o Flatten(Tail(ss))

\* A geometry value as Python sees it.  k is its kind: "num" an int or float
\* (v in thousandths), "nan" the float nan, "numstr" a string float() accepts,
\* "other" a value that is neither a container nor convertible (a word, an
\* object), "none" None, "list" a list or tuple (items), "dict" a mapping
\* (items: a function from its keys to their values)
PyNum(v) == [k |-> "num", v |-> v, items |-> << >>]

PyNaN == [k |-> "nan", v |-> 0, items |-> << >>]

PyNumStr(v) == [k |-> "numstr", v |-> v, items |-> << >>]

PyOther == [k |-> "other", v |-> 0, items |-> << >>]

PyNone == [k |-> "none", v |-> 0, items |-> << >>]

PyList(items) == [k |-> "list", v |-> 0, items |-> items]

PyDict(items) == [k |-> "dict", v |-> 0, items |-> items]

\* a float: a finite value (thousandths; values beyond the unit interval stand
\* for large magnitudes and infinities alike) or nan
Float(v) == [nan |-> FALSE, v |-> v]

NaN == [nan |-> TRUE, v |-> 0]

\* a <= b and a < b on floats: every comparison with nan is false
FloatLe(a, b) == ~a.nan /\ ~b.nan /\ a.v <= b.v

FloatLt(a, b) == ~a.nan /\ ~b.nan /\ a.v < b.v

\* isinstance(v, (int, float))
IsNumber(x) == x.k \in {"num", "nan"}

\* isinstance(v, (list, tuple))
IsSequence(x) == x.k = "list"

\* float(x) succeeds
Convertible(x) == x.k \in {"num", "nan", "numstr"}

\* float(x), for a convertible x
ToFloat(x) == IF x.k = "nan" THEN NaN ELSE Float(x.v)

\* _to_float with the default of every corner taken to be 0.0
ToFloatZeroDefault(x, default) == IF Convertible(x) THEN ToFloat(x) ELSE Float(0)

\* _to_float(x, default)
_to_float(x, default) == IF Convertible(x) THEN ToFloat(x) ELSE default

\* dict.get(key): None for a missing key
DictGet(d, key) == IF key \in DOMAIN d.items THEN d.items[key] ELSE PyNone

RECURSIVE _flatten(_)
\* _flatten(x): the leaves of a nested sequence, left to right
_flatten(x) ==
    IF IsSequence(x) THEN Flatten([i \in 1..Len(x.items) |-> _flatten(x.items[i])])
    ELSE << x >>

\* max(0.0, min(1.0, v)): min and max keep their first argument unless the
\* second compares smaller (greater), so a nan becomes 1.0
Clamp01(v) ==
    LET m == IF FloatLt(v, Float(1000)) THEN v ELSE Float(1000)
    IN  IF FloatLt(Float(0), m) THEN m.v ELSE 0

\* the corners the full unit box stands for
UnitCorners == << Float(0), Float(0), Float(1000), Float(1000) >>

\* the nested-structure branch: the first four convertible leaves, or the unit box
NestedCorners(geom) ==
    LET flat == _flatten(geom)
        nums == SelectSeq(flat, Convertible)
    IN  IF Len(nums) >= 4 THEN [i \in 1..4 |-> ToFloat(nums[i])]
        ELSE UnitCorners

\* x0, y0, x1, y1 as _coerce_geom reads them from the shape of geom
RawCorners(geom) ==
    IF geom.k = "dict"
    THEN << _to_float(DictGet(geom, "x0"), Float(0)),
            _to_float(DictGet(geom, "y0"), Float(0)),
            _to_float(DictGet(geom, "x1"), Float(1000)),
            _to_float(DictGet(geom, "y1"), Float(1000)) >>
    ELSE IF IsSequence(geom)
    THEN IF Len(geom.items) = 4 /\ \A i \in 1..4 : IsNumber(geom.items[i])
         THEN [i \in 1..4 |-> ToFloat(geom.items[i])]
         ELSE IF /\ Len(geom.items) = 2
                 /\ \A i \in 1..2 : IsSequence(geom.items[i]) /\ Len(geom.items[i].items) = 2
         THEN << _to_float(geom.items[1].items[1], Float(0)),
                 _to_float(geom.items[1].items[2], Float(0)),
                 _to_float(geom.items[2].items[1], Float(1000)),
                 _to_float(geom.items[2].items[2], Float(1000)) >>
         ELSE NestedCorners(geom)
    ELSE UnitCorners

\* the ordering and clamping of the corners c = (x0, y0, x1, y1)
OrderAndClamp(c) ==
    [xmin |-> Clamp01(IF FloatLe(c[1], c[3]) THEN c[1] ELSE c[3]),
     ymin |-> Clamp01(IF FloatLe(c[2], c[4]) THEN c[2] ELSE c[4]),
     xmax |-> Clamp01(IF FloatLe(c[1], c[3]) THEN c[3] ELSE c[1]),
     ymax |-> Clamp01(IF FloatLe(c[2], c[4]) THEN c[4] ELSE c[2])]

\* _coerce_geom(geom)
_coerce_geom(geom) == OrderAndClamp(RawCorners(geom))

\* Word(text, page, geom); cx2 and cy2 are twice the centre coordinates
Word(text, page, geom) ==
    LET g == _coerce_geom(geom)
    IN  [text |-> text, norm |-> _norm(text), page |-> page,
         xmin |-> g.xmin, ymin |-> g.ymin, xmax |-> g.xmax, ymax |-> g.ymax,
         cx2 |-> g.xmin + g.xmax, cy2 |-> g.ymin + g.ymax]

\* lexicographic < on pairs of numbers
PairLess(a, b) == a[1] < b[1] \/ (a[1] = b[1] /\ a[2] < b[2])

\* list.sort(key=...): stable, ascending; keys[i] is the key of s[i]
SortByKey(s, keys) ==
    LET n == Len(s)
        Before(i, j) == \/ PairLess(keys[i], keys[j])
                        \/ (keys[i] = keys[j] /\ i < j)
        Rank(i) == 1 + Cardinality({j \in 1..n : Before(j, i)})
    IN  [r \in 1..n |-> s[CHOOSE i \in 1..n : Rank(i) = r]]

WordKey(w) == <<w.xmin, w.cx2>>

LineKey(L) == <<L.page, L.ymin + L.ymax>>

\* BuildLine without the call of Line.sort
BuildLineUnsorted(pidx, ln) ==
    LET Usable(w) == w.value # EmptyStr /\ w.geometry.k # "none"
        raw == SelectSeq(ln.words, Usable)
        ws  == [i \in 1..Len(raw) |-> Word(raw[i].value, pidx, raw[i].geometry)]
    IN  [page  |-> pidx,
         words |-> ws,
         ymin  |-> SetMin({1000} \cup {ws[i].ymin : i \in 1..Len(ws)}),
         ymax  |-> SetMax({0} \cup {ws[i].ymax : i \in 1..Len(ws)})]

\* the Line built from one OCR line of page pidx: the words that have a value and
\* a geometry, sorted; ymin and ymax start at 1.0 and 0.0
BuildLine(pidx, ln) ==
    LET Usable(w) == w.value # EmptyStr /\ w.geometry.k # "none"
        raw == SelectSeq(ln.words, Usable)
        ws  == [i \in 1..Len(raw) |-> Word(raw[i].value, pidx, raw[i].geometry)]
    IN  [page  |-> pidx,
         words |-> SortByKey(ws, [i \in 1..Len(ws) |-> WordKey(ws[i])]),
         ymin  |-> SetMin({1000} \cup {ws[i].ymin : i \in 1..Len(ws)}),
         ymax  |-> SetMax({0} \cup {ws[i].ymax : i \in 1..Len(ws)})]

\* _build_lines_from_export without the final sort of the lines
BuildLinesUnsorted(export) ==
    LET pages == export.pages
        perPage(p) == Flatten([b \in 1..Len(pages[p].blocks) |->
                          [l \in 1..Len(pages[p].blocks[b].lines) |->
                              BuildLine(p - 1, pages[p].blocks[b].lines[l])]])
        built == Flatten([p \in 1..Len(pages) |-> perPage(p)])
        HasWords(L) == L.words # << >>
    IN  SelectSeq(built, HasWords)

\* _build_lines_from_export(export)
_build_lines_from_export(export) ==
    LET pages == export.pages
        perPage(p) == Flatten([b \in 1..Len(pages[p].blocks) |->
                          [l \in 1..Len(pages[p].blocks[b].lines) |->
                              BuildLine(p - 1, pages[p].blocks[b].lines[l])]])
        built == Flatten([p \in 1..Len(pages) |-> perPage(p)])
        HasWords(L) == L.words # << >>
        kept == SelectSeq(built, HasWords)
    IN  SortByKey(kept, [i \in 1..Len(kept) |-> LineKey(kept[i])])

RECURSIVE MatchFrom(_, _, _, _)
\* the loop of _match_sequence: the index of the word matching the last token of
\* seq[t..] when the tokens are searched from word k on, 0 when one is not found
MatchFrom(words, seq, t, k) ==
    LET found == {i \in k..Len(words) : words[i].norm = seq[t]}
    IN  IF found = {} THEN 0
        ELSE IF t = Len(seq) THEN SetMin(found)
        ELSE MatchFrom(words, seq, t + 1, SetMin(found) + 1)

NoMatch == [found |-> FALSE]

\* _match_sequence(line, seq, start_k)
_match_sequence(line, seq, start_k) ==
    LET k_end == MatchFrom(line.words, seq, 1, start_k)
    IN  IF k_end = 0 THEN NoMatch
        ELSE [found |-> TRUE, k_ini |-> start_k, k_end |-> k_end,
              xmin |-> SetMin({line.words[i].xmin : i \in start_k..k_end}),
              xmax |-> SetMax({line.words[i].xmax : i \in start_k..k_end})]

\* _find_label with the loop over the aliases outermost: the first hit by
\* (alias, line, start word)
FindLabelAliasFirst(lines, aliases) ==
    LET Hit(l, i, a) == /\ lines[l].words[i].norm = aliases[a][1]
                        /\ _match_sequence(lines[l], aliases[a], i).found
        all   == UNION {{<<l, i, a>> : i \in 1..Len(lines[l].words), a \in 1..Len(aliases)} :
                          l \in 1..Len(lines)}
        cands == {c \in all : Hit(c[1], c[2], c[3])}
        Earlier(c, e) == \/ c[3] < e[3]
                         \/ (c[3] = e[3] /\ c[1] < e[1])
                         \/ (c[3] = e[3] /\ c[1] = e[1] /\ c[2] <= e[2])
    IN  IF cands = {} THEN NoMatch
        ELSE LET c == CHOOSE x \in cands : \A e \in cands : Earlier(x, e)
                 m == _match_sequence(lines[c[1]], aliases[c[3]], c[2])
             IN  [found |-> TRUE, page |-> lines[c[1]].page, line |-> c[1],
                  line_idx |-> c[2], k0 |-> m.k_ini, k1 |-> m.k_end,
                  xmin |-> m.xmin, xmax |-> m.xmax,
                  ymin |-> lines[c[1]].ymin, ymax |-> lines[c[1]].ymax]

\* _find_label(lines, aliases): the first hit by (line, start word, alias)
_find_label(lines, aliases) ==
    LET Hit(l, i, a) == /\ lines[l].words[i].norm = aliases[a][1]
                        /\ _match_sequence(lines[l], aliases[a], i).found
        all   == UNION {{<<l, i, a>> : i \in 1..Len(lines[l].words), a \in 1..Len(aliases)} :
                          l \in 1..Len(lines)}
        cands == {c \in all : Hit(c[1], c[2], c[3])}
        Earlier(c, e) == \/ c[1] < e[1]
                         \/ (c[1] = e[1] /\ c[2] < e[2])
                         \/ (c[1] = e[1] /\ c[2] = e[2] /\ c[3] <= e[3])
    IN  IF cands = {} THEN NoMatch
        ELSE LET c == CHOOSE x \in cands : \A e \in cands : Earlier(x, e)
                 m == _match_sequence(lines[c[1]], aliases[c[3]], c[2])
             IN  [found |-> TRUE, page |-> lines[c[1]].page, line |-> c[1],
                  line_idx |-> c[2], k0 |-> m.k_ini, k1 |-> m.k_end,
                  xmin |-> m.xmin, xmax |-> m.xmax,
                  ymin |-> lines[c[1]].ymin, ymax |-> lines[c[1]].ymax]

\* _line_contains_label(L, all_label_tokens_first)
_line_contains_label(L, firsts) ==
    \E i \in 1..MinOf(3, Len(L.words)) : L.words[i].norm \in firsts

RECURSIVE RightFromNoBreak(_, _, _, _)
\* the loop of _collect_right_same_line with the break turned into a continue
RightFromNoBreak(ws, i, xmax, stop_at) ==
    IF i > Len(ws) THEN << >>
    ELSE IF ws[i].xmin <= xmax + 10 THEN RightFromNoBreak(ws, i + 1, xmax, stop_at)
    ELSE IF ws[i].norm \in stop_at THEN RightFromNoBreak(ws, i + 1, xmax, stop_at)
    ELSE << ws[i].text >> \o RightFromNoBreak(ws, i + 1, xmax, stop_at)

RECURSIVE RightFrom(_, _, _, _)
\* the loop of _collect_right_same_line from word i on: a word that does not
\* start more than 0.01 right of xmax is passed over, a word of stop_at ends
\* the loop, any other word is appended
RightFrom(ws, i, xmax, stop_at) ==
    IF i > Len(ws) THEN << >>
    ELSE IF ws[i].xmin <= xmax + 10 THEN RightFrom(ws, i + 1, xmax, stop_at)
    ELSE IF ws[i].norm \in stop_at THEN << >>
    ELSE << ws[i].text >> \o RightFrom(ws, i + 1, xmax, stop_at)

\* _collect_right_same_line(label_hit, stop_at); lines is the list the hit's
\* line belongs to
_collect_right_same_line(lines, hit, stop_at) ==
    _clean_inline(StrJoin(RightFrom(lines[hit.line].words, 1, hit.xmax, stop_at), << " " >>))

RECURSIVE BelowFrom(_, _, _, _, _)
\* the loop body of _collect_below_until_next_label once the hit's line is passed:
\* the texts gathered from the lines cand[c..], count lines already taken
BelowFrom(cand, c, firsts, max_lines, count) ==
    IF c > Len(cand) THEN << >>
    ELSE IF count >= max_lines THEN << >>
    ELSE IF _line_contains_label(cand[c], firsts) THEN << >>
    ELSE [i \in 1..Len(cand[c].words) |-> cand[c].words[i].text]
            \o BelowFrom(cand, c + 1, firsts, max_lines, count + 1)

\* _collect_below_until_next_label without the test of the page
CollectBelowAnyPage(lines, hit, firsts, max_lines) ==
    LET after == Ascending({l \in 1..Len(lines) : l > hit.line})
        cand  == [r \in 1..Len(after) |-> lines[after[r]]]
    IN  _clean_inline(StrJoin(BelowFrom(cand, 1, firsts, max_lines, 0), << " " >>))

\* _collect_below_until_next_label(lines, label_hit, all_label_tokens_first, max_lines)
_collect_below_until_next_label(lines, hit, firsts, max_lines) ==
    LET after == Ascending({l \in 1..Len(lines) : l > hit.line /\ lines[l].page = hit.page})
        cand  == [r \in 1..Len(after) |-> lines[after[r]]]
    IN  _clean_inline(StrJoin(BelowFrom(cand, 1, firsts, max_lines, 0), << " " >>))

\* INE_LABELS: field -> ordered aliases, each a sequence of tokens
INE_LABELS ==
    [ nombre |->
        << << <<"N", "O", "M", "B", "R", "E">> >> >>,
      sexo |->
        << << <<"S", "E", "X", "O">> >> >>,
      domicilio |->
        << << <<"D", "O", "M", "I", "C", "I", "L", "I", "O">> >> >>,
      clave_elector |->
        << << <<"C", "L", "A", "V", "E">>, <<"D", "E">>, <<"E", "L", "E", "C", "T", "O", "R">> >> >>,
      curp |->
        << << <<"C", "U", "R", "P">> >> >>,
      anio_registro |->
        << << <<"A", "Ntilde", "O">>, <<"D", "E">>, <<"R", "E", "G", "I", "S", "T", "R", "O">> >>,
           << <<"A", "N", "I", "O">>, <<"D", "E">>, <<"R", "E", "G", "I", "S", "T", "R", "O">> >>,
           << <<"A", "N", "O">>, <<"D", "E">>, <<"R", "E", "G", "I", "S", "T", "R", "O">> >>,
           << <<"A", "N", "O", "D", "E", "R", "E", "G", "I", "S", "T", "R", "O">> >>,
           << <<"A", "N", "O", "I">>, <<"D", "E">>, <<"R", "E", "G", "I", "S", "T", "R", "O">> >> >>,
      fecha_nacimiento |->
        << << <<"F", "E", "C", "H", "A">>, <<"D", "E">>, <<"N", "A", "C", "I", "M", "I", "E", "N", "T", "O">> >>,
           << <<"F", "E", "C", "H", "A">>, <<"D", "E", "N", "A", "C", "I", "M", "I", "E", "N", "T", "O">> >> >>,
      seccion |->
        << << <<"S", "E", "C", "C", "I", "O", "N">> >>,
           << <<"S", "E", "C", "C", "I", "Oacute", "N">> >> >>,
      vigencia |->
        << << <<"V", "I", "G", "E", "N", "C", "I", "A">> >> >> ]

\* CURP_LABELS
CURP_LABELS ==
    [ curp |->
        << << <<"C", "U", "R", "P">> >>,
           << <<"C", "L", "A", "V", "E">>, <<"U", "N", "I", "C", "A">>, <<"D", "E">>, <<"R", "E", "G", "I", "S", "T", "R", "O">>, <<"D", "E">>, <<"P", "O", "B", "L", "A", "C", "I", "O", "N">> >> >>,
      nombre |->
        << << <<"N", "O", "M", "B", "R", "E">> >>,
           << <<"N", "O", "M", "B", "R", "E", "S">> >> >>,
      entidad_registro |->
        << << <<"E", "N", "T", "I", "D", "A", "D">>, <<"D", "E">>, <<"R", "E", "G", "I", "S", "T", "R", "O">> >>,
           << <<"L", "U", "G", "A", "R">>, <<"D", "E">>, <<"R", "E", "G", "I", "S", "T", "R", "O">> >> >> ]

\* ACTA_LABELS
ACTA_LABELS ==
    [ curp |->
        << << <<"C", "L", "A", "V", "E">>, <<"U", "N", "I", "C", "A">>, <<"D", "E">>, <<"R", "E", "G", "I", "S", "T", "R", "O">>, <<"D", "E">>, <<"P", "O", "B", "L", "A", "C", "I", "O", "N">> >>,
           << <<"C", "U", "R", "P">> >> >>,
      entidad_registro |->
        << << <<"E", "N", "T", "I", "D", "A", "D">>, <<"D", "E">>, <<"R", "E", "G", "I", "S", "T", "R", "O">> >> >>,
      municipio_registro |->
        << << <<"M", "U", "N", "I", "C", "I", "P", "I", "O">>, <<"D", "E">>, <<"R", "E", "G", "I", "S", "T", "R", "O">> >> >>,
      nombres |->
        << << <<"N", "O", "M", "B", "R", "E">> >>,
           << <<"N", "O", "M", "B", "R", "E", "S">> >> >>,
      primer_apellido |->
        << << <<"P", "R", "I", "M", "E", "R">>, <<"A", "P", "E", "L", "L", "I", "D", "O">> >>,
           << <<"A", "P", "E", "L", "L", "I", "D", "O">>, <<"P", "A", "T", "E", "R", "N", "O">> >> >>,
      segundo_apellido |->
        << << <<"S", "E", "G", "U", "N", "D", "O">>, <<"A", "P", "E", "L", "L", "I", "D", "O">> >>,
           << <<"A", "P", "E", "L", "L", "I", "D", "O">>, <<"M", "A", "T", "E", "R", "N", "O">> >> >>,
      sexo |->
        << << <<"S", "E", "X", "O">> >> >>,
      fecha_nacimiento |->
        << << <<"F", "E", "C", "H", "A">>, <<"D", "E">>, <<"N", "A", "C", "I", "M", "I", "E", "N", "T", "O">> >> >>,
      lugar_nacimiento |->
        << << <<"L", "U", "G", "A", "R">>, <<"D", "E">>, <<"N", "A", "C", "I", "M", "I", "E", "N", "T", "O">> >> >> ]

\* _first_tokens_set(labels)
_first_tokens_set(labels) ==
    UNION {{labels[k][a][1] : a \in 1..Len(labels[k])} : k \in DOMAIN labels}

\* parsers.py's own VIG_REGEX: \b(19|20)\d{2}(?:[-ndash](19|20)\d{2})?\b
PARSERS_VIG_REGEX ==
    << Alt(TRUE, << Century, Cls(DigitSet, 2, 2) >>, TRUE),
       Alt(TRUE,
           << Century, Cls(DigitSet, 2, 2), Cls({"-", "ndash"}, 1, 1),
              Century, Cls(DigitSet, 2, 2) >>,
           TRUE) >>

\* \bSEXO\b\s*(H|M)\b, removed from the ine nombre
NOMBRE_SEXO_REGEX ==
    << Alt(TRUE,
           << Lit({<<"S", "E", "X", "O">>}), InnerB, Cls(WhiteSet, 0, 64),
              Lit({<<"H">>, <<"M">>}) >>,
           TRUE) >>

\* m = re.search(pat, _norm(s)); the value m.group(0), or no value
MatchedPart(pat, s) ==
    IF ReSearch(pat, _norm(s)) THEN ReGroup0(pat, _norm(s)) ELSE Missing

\* if key not in out: m = re.search(pat, T)
OrFromText(v, pat, T) ==
    IF v # Missing THEN v
    ELSE IF ReSearch(pat, T) THEN ReGroup0(pat, T)
    ELSE Missing

\* the dict of the keys that got a value
DictOfPresent(f) == [k \in {x \in DOMAIN f : f[x] # Missing} |-> f[k]]

\* how extract_fields reads one field at its label: where it collects the text
\* ("below": the lines below; "retry": the same line to the right and, when the
\* pattern misses it, the lines below; "either": to the right or, when that is
\* empty, below), the pattern and the number of lines below
FieldPlan(mode, pat, max_lines) == [mode |-> mode, pat |-> pat, max_lines |-> max_lines]

\* the ine branch, field by field
InePlan ==
    [nombre           |-> FieldPlan("below", NoPattern, 5),
     sexo             |-> FieldPlan("retry", SEXO_REGEX, 1),
     domicilio        |-> FieldPlan("below", NoPattern, 4),
     clave_elector    |-> FieldPlan("retry", CLAVE_ELECTOR_REGEX, 2),
     curp             |-> FieldPlan("retry", CURP_REGEX, 2),
     anio_registro    |-> FieldPlan("retry", YEAR_REGEX, 1),
     fecha_nacimiento |-> FieldPlan("retry", DATE_REGEX, 2),
     seccion          |-> FieldPlan("retry", SECCION_REGEX, 1),
     vigencia         |-> FieldPlan("retry", PARSERS_VIG_REGEX, 1)]

\* the curp branch
CurpPlan ==
    [curp             |-> FieldPlan("either", CURP_REGEX, 1),
     nombre           |-> FieldPlan("either", NoPattern, 3),
     entidad_registro |-> FieldPlan("either", NoPattern, 1)]

\* the acta branch: the calls of grab
ActaPlan ==
    [curp               |-> FieldPlan("either", CURP_REGEX, 1),
     entidad_registro   |-> FieldPlan("either", NoPattern, 1),
     municipio_registro |-> FieldPlan("either", NoPattern, 1),
     nombres            |-> FieldPlan("either", NoPattern, 2),
     primer_apellido    |-> FieldPlan("either", NoPattern, 1),
     segundo_apellido   |-> FieldPlan("either", NoPattern, 1),
     sexo               |-> FieldPlan("either", SEXO_REGEX, 1),
     fecha_nacimiento   |-> FieldPlan("either", DATE_REGEX, 1),
     lugar_nacimiento   |-> FieldPlan("either", NoPattern, 2)]

PlanOf(tipo) ==
    IF tipo = "ine" THEN InePlan
    ELSE IF tipo = "curp" THEN CurpPlan
    ELSE IF tipo = "acta" THEN ActaPlan
    ELSE EmptyDict

LabelsOf(tipo) ==
    IF tipo = "ine" THEN INE_LABELS
    ELSE IF tipo = "curp" THEN CURP_LABELS
    ELSE ACTA_LABELS

\* the value extract_fields takes for one field at its label: Missing when the
\* label is not found, the collected text is empty or the pattern does not match it
AnchoredField(lines, labels, key, plan) ==
    LET firsts == _first_tokens_set(labels)
        hit    == _find_label(lines, labels[key])
        right  == _collect_right_same_line(lines, hit, firsts)
        below  == _collect_below_until_next_label(lines, hit, firsts, plan.max_lines)
        s      == IF plan.mode = "below" THEN below
                  ELSE IF plan.mode = "retry"
                       THEN IF ~ReSearch(plan.pat, _norm(right)) THEN below ELSE right
                  ELSE IF right = EmptyStr THEN below ELSE right
    IN  IF ~hit.found THEN Missing
        ELSE IF plan.pat # NoPattern THEN MatchedPart(plan.pat, s)
        ELSE IF s = EmptyStr THEN Missing
        ELSE IF plan.mode = "below" /\ key = "nombre"
             THEN _clean_inline(ReRemove(NOMBRE_SEXO_REGEX, _norm(s)))
        ELSE s

\* the values extract_fields takes from the layout, per field of the type
AnchoredFields(tipo, lines) ==
    [k \in DOMAIN PlanOf(tipo) |-> AnchoredField(lines, LabelsOf(tipo), k, PlanOf(tipo)[k])]

\* if "curp" not in out / if "fecha_nacimiento" not in out: the whole-text
\* fallbacks of the ine and curp branches, applied to the anchored values a
WithTextFallbacks(tipo, a, T) ==
    [k \in DOMAIN a |->
       IF k = "curp" /\ tipo \in {"ine", "curp"} THEN OrFromText(a[k], CURP_REGEX, T)
       ELSE IF k = "fecha_nacimiento" /\ tipo = "ine" THEN OrFromText(a[k], DATE_REGEX, T)
       ELSE a[k]]

\* the dict out that extract_fields has built when its body ends: the anchored
\* values, with the whole-text fallbacks for curp (ine, curp) and fecha_nacimiento (ine)
ExtractFieldsOut(tipo, raw_text, export) ==
    IF ~export.nonempty THEN EmptyDict
    ELSE DictOfPresent(
           WithTextFallbacks(tipo,
                             AnchoredFields(tipo, _build_lines_from_export(export)),
                             _norm(raw_text)))

\* what a call returns: a dict, or None
ReturnDict(d) == [is_none |-> FALSE, dict |-> d]

ReturnNone == [is_none |-> TRUE, dict |-> EmptyDict]

\* extract_fields(tipo_documento, raw_text, export): the only return statement is
\* the early "return out" for a falsy export; after the type branches the body
\* ends without one, so the call returns None
extract_fields(tipo, raw_text, export) ==
    IF ~export.nonempty THEN ReturnDict(EmptyDict)
    ELSE ReturnNone

\* extract_fields(...) or {}   (routers/ocr.py)
OrEmptyDict(ret) == IF ret.is_none \/ ret.dict = EmptyDict THEN EmptyDict ELSE ret.dict

-----------------------------------------------------------------------------
(* Calls of extract_fields: the exports are one-page OCR results whose lines *)
(* are drawn from LineTexts; the raw text is the one run_ocr joins from the  *)
(* same lines.                                                               *)

\* the OCR lines (word values) a document may carry
LineTexts ==
    <<
      << <<"S", "e", "x", "o">>, <<"H">> >>,
      << <<"N", "O", "M", "B", "R", "E">> >>,
      << <<"A", "N", "A">>, <<"L", "U", "Z">> >>,
      << <<"F", "E", "C", "H", "A">>, <<"D", "E">>, <<"N", "A", "C", "I", "M", "I", "E", "N", "T", "O">>, <<"0", "5", "/", "0", "7", "/", "1", "9", "9", "0">> >>,
      << <<"C", "U", "R", "P">>, <<"A", "B", "C", "D", "8", "0", "0", "1", "0", "1", "H", "D", "F", "R", "R", "L", "0", "9">> >>,
      << <<"S", "E", "C", "C", "I", "Oacute", "N">>, <<"1", "2", "3", "4">> >>,
      << <<"E", "N", "T", "I", "D", "A", "D">>, <<"D", "E">>, <<"R", "E", "G", "I", "S", "T", "R", "O">>, <<"J", "A", "L", "I", "S", "C", "O">> >>,
      << <<"V", "I", "G", "E", "N", "C", "I", "A">>, <<"2", "0", "2", "0", "-", "2", "0", "3", "0">> >>,
      << <<"S", "E", "X", "O">>, <<"X">> >>,
      << <<"M">> >>,
      << <<"A", "C", "T", "A">>, <<"D", "E">>, <<"N", "A", "C", "I", "M", "I", "E", "N", "T", "O">> >>,
      << <<"I", "N", "S", "T", "I", "T", "U", "T", "O">>, <<"N", "A", "C", "I", "O", "N", "A", "L">>, <<"E", "L", "E", "C", "T", "O", "R", "A", "L">> >>,
      << <<"h", "o", "l", "a">> >>
    >>

\* at most this many lines on a document
MaxLines == 2

\* the geometry of word j of the row-th line from the top: a flat 4-sequence on
\* odd rows, a pair of points with reversed endpoints on even rows
WordGeometry(row, j) ==
    IF row % 2 = 1
    THEN PyList(<< PyNum(100 * (j - 1)), PyNum(100 * row),
                   PyNum(100 * (j - 1) + 80), PyNum(100 * row + 50) >>)
    ELSE PyList(<< PyList(<< PyNum(100 * (j - 1) + 80), PyNum(100 * row + 50) >>),
                   PyList(<< PyNum(100 * (j - 1)), PyNum(100 * row) >>) >>)

\* result.export() for a page with the lines sel of LineTexts; when bottomUp the
\* engine lists the lines from the bottom of the page to its top
ExportOf(sel, bottomUp) ==
    LET n == Len(sel)
        Row(i) == IF bottomUp THEN n - i + 1 ELSE i
        LineOf(i) == [words |-> [j \in 1..Len(LineTexts[sel[i]]) |->
                                    [value |-> LineTexts[sel[i]][j],
                                     geometry |-> WordGeometry(Row(i), j)]]]
    IN  [nonempty |-> TRUE,
         pages |-> << [blocks |-> << [lines |-> [i \in 1..n |-> LineOf(i)]] >>] >>]

\* export = {} (or None)
NoExport == [nonempty |-> FALSE, pages |-> << >>]

\* run_ocr's text for the same page: words joined by blanks, lines by newlines
RunOcrText(sel) ==
    StrJoin([i \in 1..Len(sel) |-> StrJoin(LineTexts[sel[i]], << " " >>)], << "\n" >>)

\* the line selections: up to MaxLines lines, in the order of LineTexts
Selections ==
    {Ascending(S) : S \in {X \in SUBSET (1..Len(LineTexts)) : Cardinality(X) <= MaxLines}}

FieldsInit ==
    /\ fpc = "call"
    /\ f_tipo \in Tipos
    /\ \E sel \in Selections, bottomUp \in BOOLEAN, present \in BOOLEAN :
          /\ f_raw_text = RunOcrText(sel)
          /\ f_export = IF present THEN ExportOf(sel, bottomUp) ELSE NoExport
    /\ f_out = EmptyDict
    /\ f_ret = ReturnNone
    /\ f_auto = EmptyDict
    /\ MergeIdle
    /\ DetectIdle
    /\ RouterIdle
    /\ LaterIdle

\* f_ret = extract_fields(f_tipo, f_raw_text, f_export); f_out is the dict its body built
ExtractFieldsCall ==
    /\ fpc = "call"
    /\ f_out' = ExtractFieldsOut(f_tipo, f_raw_text, f_export)
    /\ f_ret' = extract_fields(f_tipo, f_raw_text, f_export)
    /\ fpc' = "returned"
    /\ UNCHANGED <<f_tipo, f_raw_text, f_export, f_auto, mergeVars, detectVars, routerVars, laterVars>>

\* fields_auto = extract_fields(...) or {}   (routers/ocr.py)
CallerDefault ==
    /\ fpc = "returned"
    /\ f_auto' = OrEmptyDict(f_ret)
    /\ fpc' = "handed"
    /\ UNCHANGED <<f_tipo, f_raw_text, f_export, f_out, f_ret, mergeVars, detectVars, routerVars, laterVars>>

FieldsNext == ExtractFieldsCall \/ CallerDefault

SpecFields == FieldsInit /\ [][FieldsNext]_vars

\* the fields whose label is located and whose collected value passes
Anchored == AnchoredFields(f_tipo, _build_lines_from_export(f_export))

\* C7: extract_fields returns a field map for every type and every export; for
\* ine, curp and acta, every field whose label anchor is located and whose
\* collected value is non-empty and satisfies the field's pattern is in the
\* returned map with that value, and so is in the auto source the caller hands on
C7_ReturnsAnchoredFields ==
    (fpc = "handed") =>
      /\ ~f_ret.is_none
      /\ f_tipo \in FixedTipos =>
           \A k \in DOMAIN Anchored :
              Anchored[k] # Missing =>
                 /\ k \in DOMAIN f_ret.dict /\ f_ret.dict[k] = Anchored[k]
                 /\ k \in DOMAIN f_auto /\ f_auto[k] = Anchored[k]

-----------------------------------------------------------------------------
(* services/parsers.py: detect_type *)

\* \bw\b for a literal phrase w
Phrase(w) == Alt(TRUE, << Lit({w}) >>, TRUE)

ACTA_DE_NACIMIENTO == <<"A", "C", "T", "A", " ", "D", "E", " ", "N", "A", "C", "I", "M", "I", "E", "N", "T", "O">>

OFICIAL_DEL_REGISTRO == <<"O", "F", "I", "C", "I", "A", "L", " ", "D", "E", "L", " ", "R", "E", "G", "I", "S", "T", "R", "O">>

INSTITUTO_NACIONAL_ELECTORAL == <<"I", "N", "S", "T", "I", "T", "U", "T", "O", " ", "N", "A", "C", "I", "O", "N", "A", "L", " ", "E", "L", "E", "C", "T", "O", "R", "A", "L">>

CREDENCIAL_PARA_VOTAR == <<"C", "R", "E", "D", "E", "N", "C", "I", "A", "L", " ", "P", "A", "R", "A", " ", "V", "O", "T", "A", "R">>

CLAVE_UNICA == <<"C", "L", "A", "V", "E", " ", "U", "N", "I", "C", "A", " ", "D", "E", " ", "R", "E", "G", "I", "S", "T", "R", "O", " ", "D", "E", " ", "P", "O", "B", "L", "A", "C", "I", "O", "N">>

CURP_TOKEN == <<"C", "U", "R", "P">>

\* \bINSTITUTO NACIONAL ELECTORAL\b|\bCREDENCIAL PARA VOTAR\b
DETECT_INE_REGEX == << Phrase(INSTITUTO_NACIONAL_ELECTORAL), Phrase(CREDENCIAL_PARA_VOTAR) >>

\* \bCLAVE UNICA DE REGISTRO DE POBLACION\b|\b\bCURP\b
DETECT_CURP_REGEX == << Phrase(CLAVE_UNICA), Phrase(CURP_TOKEN) >>

\* the tests in another order: curp before acta and ine
DetectCurpFirst(text) ==
    LET T == _norm(text)
    IN  IF ReSearch(DETECT_CURP_REGEX, T) THEN "curp"
        ELSE IF \/ ReSearch(<< Phrase(ACTA_DE_NACIMIENTO) >>, T)
                \/ ReSearch(<< Phrase(OFICIAL_DEL_REGISTRO) >>, T)
        THEN "acta"
        ELSE IF ReSearch(DETECT_INE_REGEX, T) THEN "ine"
        ELSE "auto"

\* detect_type(text)
detect_type(text) ==
    LET T == _norm(text)
    IN  IF \/ ReSearch(<< Phrase(ACTA_DE_NACIMIENTO) >>, T)
           \/ ReSearch(<< Phrase(OFICIAL_DEL_REGISTRO) >>, T)
        THEN "acta"
        ELSE IF ReSearch(DETECT_INE_REGEX, T) THEN "ine"
        ELSE IF ReSearch(DETECT_CURP_REGEX, T) THEN "curp"
        ELSE "auto"

\* the pieces a text handed to detect_type is assembled from: the keywords in
\* mixed case, with accents and irregular whitespace, and other words
DetectPieces ==
    << <<"A", "c", "t", "a", " ", "d", "e", " ", "N", "a", "c", "i", "m", "i", "e", "n", "t", "o">>,
       <<"O", "F", "I", "C", "I", "A", "L", " ", " ", "D", "E", "L", "\t", "R", "E", "G", "I", "S", "T", "R", "O">>,
       <<"I", "n", "s", "t", "i", "t", "u", "t", "o", " ", "N", "a", "c", "i", "o", "n", "a", "l", " ", "E", "l", "e", "c", "t", "o", "r", "a", "l">>,
       <<"C", "R", "E", "D", "E", "N", "C", "I", "A", "L", " ", "P", "A", "R", "A", " ", "V", "O", "T", "A", "R">>,
       <<"C", "l", "a", "v", "e", " ", "Uacute", "n", "i", "c", "a", " ", "d", "e", " ", "R", "e", "g", "i", "s", "t", "r", "o", " ", "d", "e", " ", "P", "o", "b", "l", "a", "c", "i", "oacute", "n">>,
       <<"c", "u", "r", "p">>,
       <<"h", "o", "l", "a">>,
       <<"S">> >>

\* at most this many pieces in a text
MaxPieces == 2

\* what joins the pieces: a blank, a line break, or nothing
PieceSeparators == {<< " " >>, << "\n" >>, EmptyStr}

RECURSIVE SeqsUpTo(_, _)
\* the sequences over S of length at most n
SeqsUpTo(S, n) ==
    IF n = 0 THEN {<< >>}
    ELSE LET shorter == SeqsUpTo(S, n - 1)
         IN  shorter \cup {Append(q, x) : q \in shorter, x \in S}

DetectTexts ==
    {StrJoin([i \in 1..Len(q) |-> DetectPieces[q[i]]], sep) :
        q \in SeqsUpTo(1..Len(DetectPieces), MaxPieces), sep \in PieceSeparators}

DetectInit ==
    /\ dpc = "call"
    /\ d_text \in DetectTexts
    /\ d_type = ""
    /\ MergeIdle
    /\ FieldsIdle
    /\ RouterIdle
    /\ LaterIdle

\* d_type = detect_type(d_text)
DetectCall ==
    /\ dpc = "call"
    /\ d_type' = detect_type(d_text)
    /\ dpc' = "returned"
    /\ UNCHANGED <<d_text, mergeVars, fieldVars, routerVars, laterVars>>

DetectNext == DetectCall

SpecDetect == DetectInit /\ [][DetectNext]_vars

\* the normalized text T contains the phrase w as whole words
ContainsPhrase(T, w) ==
    \E pos \in 1..Len(T) :
       /\ HasAt(T, pos, w)
       /\ pos = 1 \/ T[pos - 1] \notin WordSet
       /\ pos + Len(w) - 1 = Len(T) \/ T[pos + Len(w)] \notin WordSet

HasActaKeyword(T) ==
    ContainsPhrase(T, ACTA_DE_NACIMIENTO) \/ ContainsPhrase(T, OFICIAL_DEL_REGISTRO)

HasIneKeyword(T) ==
    ContainsPhrase(T, INSTITUTO_NACIONAL_ELECTORAL) \/ ContainsPhrase(T, CREDENCIAL_PARA_VOTAR)

HasCurpKeyword(T) ==
    ContainsPhrase(T, CLAVE_UNICA) \/ ContainsPhrase(T, CURP_TOKEN)

\* C8: detect_type is first-match-wins over the normalized text in the order acta,
\* ine, curp: acta if the text contains ACTA DE NACIMIENTO or OFICIAL DEL REGISTRO,
\* otherwise ine if it contains INSTITUTO NACIONAL ELECTORAL or CREDENCIAL PARA
\* VOTAR, otherwise curp if it contains CLAVE UNICA DE REGISTRO DE POBLACION or the
\* token CURP, otherwise auto; so a text with an acta keyword and the CURP token is
\* acta, and the result is one of acta, ine, curp, auto.  (A keyword is contained
\* when it occurs as whole words.)
C8_FirstMatchWins ==
    (dpc = "returned") =>
      LET T == _norm(d_text)
      IN  /\ d_type = (IF HasActaKeyword(T) THEN "acta"
                       ELSE IF HasIneKeyword(T) THEN "ine"
                       ELSE IF HasCurpKeyword(T) THEN "curp"
                       ELSE "auto")
          /\ (HasActaKeyword(T) /\ ContainsPhrase(T, CURP_TOKEN)) => d_type = "acta"
          /\ d_type \in {"acta", "ine", "curp", "auto"}

\* C8 witness: a text that holds the CURP token before an acta keyword was
\* classified acta
C8_Witness ==
    /\ dpc = "returned"
    /\ d_type = "acta"
    /\ ContainsPhrase(_norm(d_text), CURP_TOKEN)
    /\ HasActaKeyword(_norm(d_text))
    /\ HasAt(_norm(d_text), 1, CURP_TOKEN)

-----------------------------------------------------------------------------
(* services/parsers.py: extract_fields_text_only, for texts that carry no    *)
(* field label at a line start other than SEXO (the texts of the requests    *)
(* below): the rules that can fire on them are the CURP search, which runs   *)
(* for every type, the ine SEXO rule and the acta SEXO rule.                 *)

\* U: unidecode, upper-case, runs of blanks and tabs to one blank
TextU(raw) ==
    CollapseFrom([i \in 1..Len(raw) |-> UpperChar(UnidecodeChar(raw[i]))], {" ", "\t"}, 1, 1)

\* ^SEXO[ :]*\s*(w)\b under re.M, the group one of the words ws
TextSexoRegex(ws) ==
    << Alt(FALSE,
           << LineStart, Lit({<<"S", "E", "X", "O">>}), Cls({" ", ":"}, 0, 64), Cls(WhiteSet, 0, 64),
              Lit(ws) >>,
           TRUE) >>

SexoWordsH == {<<"H", "O", "M", "B", "R", "E">>, <<"H">>}

SexoWordsM == {<<"M", "U", "J", "E", "R">>, <<"M">>}

\* the ine SEXO rule: "M" when the group of the leftmost match starts with M, else "H"
TextSexo(U) ==
    LET pat    == TextSexoRegex(SexoWordsH \cup SexoWordsM)
        starts == {pos \in 1..(Len(U) + 1) : PatEnds(pat, U, pos) # {}}
    IN  IF starts = {} THEN Missing
        ELSE IF PatEnds(TextSexoRegex(SexoWordsM), U, SetMin(starts)) # {} THEN << "M" >>
        ELSE << "H" >>

RECURSIVE SplitOnNewline(_)
\* str.split("\n")
SplitOnNewline(s) ==
    IF \A i \in 1..Len(s) : s[i] # "\n" THEN << s >>
    ELSE LET p == SetMin({i \in 1..Len(s) : s[i] = "\n"})
         IN  << SubSeq(s, 1, p - 1) >> \o SplitOnNewline(SubSeq(s, p + 1, Len(s)))

\* lines = [ln.strip() for ln in U.split("\n")]
ActaLinesOf(U) ==
    LET parts == SplitOnNewline(U)
    IN  [i \in 1..Len(parts) |-> StrStrip(parts[i])]

LABELS_UP == { <<"S", "E", "X", "O">>,
               <<"F", "E", "C", "H", "A", " ", "D", "E", " ", "N", "A", "C", "I", "M", "I", "E", "N", "T", "O">>,
               <<"L", "U", "G", "A", "R", " ", "D", "E", " ", "N", "A", "C", "I", "M", "I", "E", "N", "T", "O">> }

RECURSIVE _prev_nonlabel_lines(_, _, _, _, _)
\* _prev_nonlabel_lines(start_idx, max_lookback) from line j upwards, looked lines
\* seen and n values collected so far: blank lines and label lines are passed over
_prev_nonlabel_lines(lines, j, looked, n, max_lookback) ==
    IF j < 1 \/ looked >= max_lookback \/ n >= 6 THEN << >>
    ELSE IF StrStrip(lines[j]) = EmptyStr
    THEN _prev_nonlabel_lines(lines, j - 1, looked + 1, n, max_lookback)
    ELSE IF CollapseFrom(StrStrip(lines[j]), WhiteSet, 1, 1) \in LABELS_UP
    THEN _prev_nonlabel_lines(lines, j - 1, looked + 1, n, max_lookback)
    ELSE << StrStrip(lines[j]) >> \o _prev_nonlabel_lines(lines, j - 1, looked + 1, n + 1, max_lookback)

\* the lines looked at for the value of the first line that is SEXO and nothing else
ActaSexoCandidates(U) ==
    LET lines  == ActaLinesOf(U)
        labels == {i \in 1..Len(lines) : lines[i] = <<"S", "E", "X", "O">>}
    IN  IF labels = {} THEN << >>
        ELSE _prev_nonlabel_lines(lines, SetMin(labels) - 1, 0, 0, 6)

\* "MUJER" if v.startswith("MUJER") else "HOMBRE"
ActaSexoWord(v) ==
    IF HasAt(v, 1, <<"M", "U", "J", "E", "R">>) THEN <<"M", "U", "J", "E", "R">> ELSE <<"H", "O", "M", "B", "R", "E">>

\* the acta SEXO rule: the first candidate line with \b(HOMBRE|MUJER|H|M)\b decides
ActaTextSexo(U) ==
    LET cands == ActaSexoCandidates(U)
        hits  == {c \in 1..Len(cands) : ReSearch(SEXO_REGEX, cands[c])}
    IN  IF hits = {} THEN Missing
        ELSE ActaSexoWord(ReGroup0(SEXO_REGEX, cands[SetMin(hits)]))

\* extract_fields_text_only(tipo_documento, raw_text)
extract_fields_text_only(tipo, raw) ==
    LET T == _norm(raw)
        U == TextU(raw)
    IN  DictOfPresent(
          [curp |-> IF ReSearch(CURP_REGEX, T) THEN ReGroup0(CURP_REGEX, T) ELSE Missing,
           sexo |-> IF tipo = "ine" THEN TextSexo(U)
                    ELSE IF tipo = "acta" THEN ActaTextSexo(U)
                    ELSE Missing])

-----------------------------------------------------------------------------
(* routers/ocr.py: POST /ocr/extract, one request at a time *)

\* requests are received while the store holds fewer documents than this
MaxDocs == 1

\* the tipo_documento form values: absent, and some spellings
FormTipos == {"<none>", "auto", "AUTO", "ine", "curp", "Acta", "pasaporte"}

UsuarioIDs == {"", "u1"}

\* the uploaded file: nothing, a PDF, a photo of an ine card with valid
\* proportions, another photo, or bytes sent as an image that do not decode
ContentKinds == {"empty", "pdf", "card", "photo", "garbage"}

\* str.lower() on the form values
LowerTipo(t) ==
    IF t = "AUTO" THEN "auto"
    ELSE IF t = "Acta" THEN "acta"
    ELSE t

_is_pdf(content) == content = "pdf"

_is_image(content) == content \in {"card", "photo", "garbage"}

\* _enforce_content_rules(tipo_documento, ...): 0 when it returns, otherwise the
\* status of the error it raises (500 for an image that does not open)
_enforce_content_rules(tipo, content) ==
    IF tipo \in {"curp", "acta"}
    THEN IF ~_is_pdf(content) THEN 415 ELSE 0
    ELSE IF tipo = "ine"
    THEN IF ~_is_image(content) THEN 415
         ELSE IF content = "empty" THEN 400
         ELSE IF content = "garbage" THEN 500
         ELSE IF content = "photo" THEN 415
         ELSE 0
    ELSE 0

\* the lines of LineTexts a request's document is made of
RequestLines == {1, 5, 11, 12}

RequestDocs == {sel \in Selections : \A i \in 1..Len(sel) : sel[i] \in RequestLines}

NoTemplate == "<none>"

\* tb.DEFAULT_TEMPLATE.get(detected_type)
DEFAULT_TEMPLATE(tipo) ==
    IF tipo = "acta" THEN "acta_carta_portrait"
    ELSE IF tipo = "curp" THEN "curp_carta_landscape"
    ELSE IF tipo = "ine" THEN "ine_9x6_h"
    ELSE NoTemplate

TemplateCurp == <<"W", "X", "Y", "Z", "9", "0", "0", "2", "0", "2", "M", "J", "C", "A", "B", "C", "0", "8">>

\* what extract_by_template may read from the boxes of the type's template: nothing
\* legible, or the curp box only
TemplateReads(tipo) ==
    LET keys == {expected_keys_map(tipo)[i] : i \in 1..Len(expected_keys_map(tipo))}
    IN  {[k \in keys |-> EmptyStr],
         [k \in keys |-> IF k = "curp" THEN TemplateCurp ELSE EmptyStr]}

\* the except branch left without resetting the locals
OnTemplateErrorKeepsLocals(l) == [l EXCEPT !.fields_tpl = [curp |-> TemplateCurp]]

\* except Exception as e: fields_tpl = {}; pre_meta = {"error": str(e)}
OnTemplateError(l) == [l EXCEPT !.fields_tpl = EmptyDict, !.pre_meta = "error"]

\* the detected type is never refused
UndetectedNeverRefused(detected) == FALSE

\* if detected_type == "auto": raise HTTPException(400, ...)
UndetectedIsError(detected) == detected = "auto"

\* raise HTTPException(status, ...), or an exception that escapes the handler
Fail(status) ==
    /\ rpc' = "error"
    /\ response' = [status |-> status]

ExtractInit ==
    /\ rpc = "idle"
    /\ request = NoRequest
    /\ loc = LocInit
    /\ made = NoCalls
    /\ store = << >>
    /\ response = NoResponse
    /\ MergeIdle
    /\ FieldsIdle
    /\ DetectIdle
    /\ LaterIdle

others == <<mergeVars, fieldVars, detectVars, laterVars>>

\* a request arrives
Receive ==
    /\ rpc = "idle"
    /\ Len(store) < MaxDocs
    /\ \E t \in FormTipos, u \in UsuarioIDs, c \in ContentKinds, dbg \in BOOLEAN :
          request' = [tipo_documento |-> t, usuarioID |-> u, content |-> c, debug |-> dbg]
    /\ rpc' = "validate"
    /\ loc' = LocInit
    /\ made' = NoCalls
    /\ response' = NoResponse
    /\ UNCHANGED <<store, others>>

\* the checks on the form, forced_type, and the content rules of a forced type
Validate ==
    /\ rpc = "validate"
    /\ LET forced == LowerTipo(IF request.tipo_documento \in {"<none>", ""}
                               THEN "auto" ELSE request.tipo_documento)
           rule   == IF forced # "auto"
                     THEN _enforce_content_rules(forced, request.content) ELSE 0
       IN  IF request.content = "empty" \/ request.usuarioID = ""
           THEN Fail(400) /\ UNCHANGED loc
           ELSE /\ loc' = [loc EXCEPT !.forced_type = forced]
                /\ IF rule # 0 THEN Fail(rule)
                   ELSE rpc' = "ocr" /\ UNCHANGED response
    /\ UNCHANGED <<request, made, store, others>>

\* run_pdf_pipeline or run_ocr: the text and the export of the document, or the
\* error of bytes that do not decode
RunOcr ==
    /\ rpc = "ocr"
    /\ IF request.content = "garbage"
       THEN Fail(500) /\ UNCHANGED loc
       ELSE /\ \E sel \in RequestDocs :
                  loc' = [loc EXCEPT !.raw_text = RunOcrText(sel),
                                     !.export = ExportOf(sel, FALSE)]
            /\ rpc' = "detect"
            /\ UNCHANGED response
    /\ UNCHANGED <<request, made, store, others>>

\* detected_type: the forced type, or detect_type's answer, refused when it is
\* "auto" and then submitted to the content rules
DetectType ==
    /\ rpc = "detect"
    /\ LET detected == IF loc.forced_type = "auto" THEN detect_type(loc.raw_text)
                       ELSE loc.forced_type
       IN  /\ loc' = [loc EXCEPT !.detected_type = detected]
           /\ IF loc.forced_type # "auto" THEN rpc' = "template" /\ UNCHANGED response
              ELSE IF UndetectedIsError(detected) THEN Fail(400)
              ELSE IF _enforce_content_rules(detected, request.content) # 0
                   THEN Fail(_enforce_content_rules(detected, request.content))
              ELSE rpc' = "template" /\ UNCHANGED response
    /\ UNCHANGED <<request, made, store, others>>

\* the try block around extract_by_template and its except branch
TemplateStep ==
    /\ rpc = "template"
    /\ IF DEFAULT_TEMPLATE(loc.detected_type) = NoTemplate
       THEN UNCHANGED <<loc, made>>
       ELSE \/ /\ \E f \in TemplateReads(loc.detected_type) :
                     loc' = [loc EXCEPT !.fields_tpl = f, !.pre_meta = "meta"]
               /\ made' = [made EXCEPT !.template = @ + 1]
            \/ /\ loc' = OnTemplateError(loc)
               /\ made' = [made EXCEPT !.template = @ + 1, !.template_errors = @ + 1]
    /\ rpc' = "sources"
    /\ UNCHANGED <<request, store, response, others>>

\* fields_auto = extract_fields(...) or {}; fields_text = extract_fields_text_only(...) or {}
FieldSources ==
    /\ rpc = "sources"
    /\ loc' = [loc EXCEPT
                 !.fields_auto = OrEmptyDict(extract_fields(loc.detected_type, loc.raw_text,
                                                            loc.export)),
                 !.fields_text = extract_fields_text_only(loc.detected_type, loc.raw_text)]
    /\ made' = [made EXCEPT !.extract_fields = @ + 1, !.extract_fields_text_only = @ + 1]
    /\ rpc' = "merge"
    /\ UNCHANGED <<request, store, response, others>>

\* fields, decisions = smart_merge_fields(detected_type, fields_tpl, fields_auto, fields_text)
Merge ==
    /\ rpc = "merge"
    /\ LET r == smart_merge_fields(loc.detected_type, loc.fields_tpl, loc.fields_auto,
                                   loc.fields_text)
       IN  loc' = [loc EXCEPT !.fields = r.fields, !.decisions = r.decisions]
    /\ made' = [made EXCEPT !.smart_merge_fields = @ + 1]
    /\ rpc' = "save"
    /\ UNCHANGED <<request, store, response, others>>

\* the payload, save(payload) and the response; archivoID is fresh for each
\* call, the model numbers the documents in the order they are saved
Save ==
    /\ rpc = "save"
    /\ store' = Append(store, [archivoID |-> Len(store) + 1,
                               usuarioID |-> request.usuarioID,
                               tipo_documento |-> loc.detected_type,
                               fields |-> loc.fields])
    /\ made' = [made EXCEPT !.save = @ + 1]
    /\ response' = [status |-> 200, archivoID |-> Len(store) + 1,
                    tipo_documento |-> loc.detected_type,
                    preprocess |-> IF request.debug THEN loc.pre_meta ELSE "absent"]
    /\ rpc' = "done"
    /\ UNCHANGED <<request, loc, others>>

\* the handler has returned or raised and its locals are gone; the server waits
\* for the next request
Finish ==
    /\ rpc \in {"done", "error"}
    /\ rpc' = "idle"
    /\ request' = NoRequest
    /\ loc' = LocInit
    /\ made' = NoCalls
    /\ response' = NoResponse
    /\ UNCHANGED <<store, others>>

ExtractNext ==
    \/ Receive
    \/ Validate
    \/ RunOcr
    \/ DetectType
    \/ TemplateStep
    \/ FieldSources
    \/ Merge
    \/ Save
    \/ Finish

SpecExtract == ExtractInit /\ [][ExtractNext]_vars

\* the documents saved under the archivoID the response carries
SavedAsAnswered == {i \in 1..Len(store) : store[i].archivoID = response.archivoID}

\* C9: template extraction is attempted at most once per request, and when it
\* raises the request still completes: it does not end in an error, the template
\* map handed to the merge is empty, the preprocessing metadata carries the error,
\* the auto and text maps are the ones computed from the document and are merged
\* as they are, and the merged record is saved exactly once
C9_TemplateFailureAbsorbed ==
    /\ made.template <= 1
    /\ made.template_errors = 1 =>
         /\ rpc # "error"
         /\ loc.fields_tpl = EmptyDict
         /\ loc.pre_meta = "error"
         /\ rpc \in {"merge", "save", "done"} =>
              /\ loc.fields_auto = OrEmptyDict(extract_fields(loc.detected_type, loc.raw_text,
                                                              loc.export))
              /\ loc.fields_text = extract_fields_text_only(loc.detected_type, loc.raw_text)
              /\ made.extract_fields = 1 /\ made.extract_fields_text_only = 1
         /\ rpc \in {"save", "done"} =>
              LET r == smart_merge_fields(loc.detected_type, EmptyDict, loc.fields_auto,
                                          loc.fields_text)
              IN  /\ loc.fields = r.fields
                  /\ loc.decisions = r.decisions
                  /\ made.smart_merge_fields = 1
         /\ rpc = "done" =>
              /\ made.save = 1
              /\ response.status = 200
              /\ Cardinality(SavedAsAnswered) = 1
              /\ \A i \in SavedAsAnswered :
                    /\ store[i].fields = loc.fields
                    /\ store[i].tipo_documento = loc.detected_type

\* C9 witness: a request whose template extraction raised has completed, with a
\* value of the text source in the saved record
C9_Witness ==
    /\ rpc = "done"
    /\ made.template = 1
    /\ made.template_errors = 1
    /\ loc.fields_text # EmptyDict
    /\ \E i \in SavedAsAnswered :
          \E k \in DOMAIN store[i].fields : store[i].fields[k] # EmptyStr

\* the steps after the type is settled
PastDetection == {"template", "sources", "merge", "save", "done"}

\* C10: when no type is forced and detect_type returns auto the request fails
\* (status 400) before template extraction, field extraction, merge and save; so
\* every saved record has a tipo_documento other than "auto", and a request that
\* ended in an error has saved no record
C10_UndetectedTypeFails ==
    /\ (rpc \in PastDetection \cup {"error"} /\ loc.forced_type = "auto"
          /\ loc.detected_type # "" /\ detect_type(loc.raw_text) = "auto") =>
         /\ rpc = "error"
         /\ response.status = 400
         /\ made = NoCalls
    /\ rpc \in PastDetection => loc.detected_type # "auto"
    /\ \A i \in 1..Len(store) : store[i].tipo_documento # "auto"
    /\ rpc = "error" => made.save = 0

\* C10 witness: a request sent with the type "AUTO" and a document of no known
\* type has failed
C10_Witness ==
    /\ rpc = "error"
    /\ request.tipo_documento = "AUTO"
    /\ loc.forced_type = "auto"
    /\ loc.detected_type = "auto"
    /\ loc.raw_text # EmptyStr
    /\ response.status = 400
    /\ made = NoCalls

-----------------------------------------------------------------------------
(* services/extractor.py: the field cleaner *)

\* _norm_text(s): unidecode, upper-case, collapse whitespace runs, strip
_norm_text(s) ==
    LET u == [i \in 1..Len(s) |-> UpperChar(UnidecodeChar(s[i]))]
    IN  StrStrip(CollapseFrom(u, WhiteSet, 1, 1))

\* ESTADOS
ESTADOS ==
    { <<"A", "G", "U", "A", "S", "C", "A", "L", "I", "E", "N", "T", "E", "S">>,
      <<"B", "A", "J", "A", " ", "C", "A", "L", "I", "F", "O", "R", "N", "I", "A">>,
      <<"B", "A", "J", "A", " ", "C", "A", "L", "I", "F", "O", "R", "N", "I", "A", " ", "S", "U", "R">>,
      <<"C", "A", "M", "P", "E", "C", "H", "E">>,
      <<"C", "O", "A", "H", "U", "I", "L", "A">>,
      <<"C", "O", "L", "I", "M", "A">>,
      <<"C", "H", "I", "A", "P", "A", "S">>,
      <<"C", "H", "I", "H", "U", "A", "H", "U", "A">>,
      <<"C", "I", "U", "D", "A", "D", " ", "D", "E", " ", "M", "E", "X", "I", "C", "O">>,
      <<"D", "U", "R", "A", "N", "G", "O">>,
      <<"G", "U", "A", "N", "A", "J", "U", "A", "T", "O">>,
      <<"G", "U", "E", "R", "R", "E", "R", "O">>,
      <<"H", "I", "D", "A", "L", "G", "O">>,
      <<"J", "A", "L", "I", "S", "C", "O">>,
      <<"M", "E", "X", "I", "C", "O">>,
      <<"M", "I", "C", "H", "O", "A", "C", "A", "N">>,
      <<"M", "O", "R", "E", "L", "O", "S">>,
      <<"N", "A", "Y", "A", "R", "I", "T">>,
      <<"N", "U", "E", "V", "O", " ", "L", "E", "O", "N">>,
      <<"O", "A", "X", "A", "C", "A">>,
      <<"P", "U", "E", "B", "L", "A">>,
      <<"Q", "U", "E", "R", "E", "T", "A", "R", "O">>,
      <<"Q", "U", "I", "N", "T", "A", "N", "A", " ", "R", "O", "O">>,
      <<"S", "A", "N", " ", "L", "U", "I", "S", " ", "P", "O", "T", "O", "S", "I">>,
      <<"S", "I", "N", "A", "L", "O", "A">>,
      <<"S", "O", "N", "O", "R", "A">>,
      <<"T", "A", "B", "A", "S", "C", "O">>,
      <<"T", "A", "M", "A", "U", "L", "I", "P", "A", "S">>,
      <<"T", "L", "A", "X", "C", "A", "L", "A">>,
      <<"V", "E", "R", "A", "C", "R", "U", "Z">>,
      <<"Y", "U", "C", "A", "T", "A", "N">>,
      <<"Z", "A", "C", "A", "T", "E", "C", "A", "S">> }

\* LABEL_PREFIXES
LABEL_PREFIXES ==
    [acta |->
        [nombres |-> << <<"N", "O", "M", "B", "R", "E">>, <<"N", "O", "M", "B", "R", "E", " ", "S">>, <<"N", "O", "M", "B", "R", "E", "S">> >>,
         primer_apellido |-> << <<"P", "R", "I", "M", "E", "R", " ", "A", "P", "E", "L", "L", "I", "D", "O">>, <<"A", "P", "E", "L", "L", "I", "D", "O", " ", "P", "A", "T", "E", "R", "N", "O">> >>,
         segundo_apellido |-> << <<"S", "E", "G", "U", "N", "D", "O", " ", "A", "P", "E", "L", "L", "I", "D", "O">>, <<"A", "P", "E", "L", "L", "I", "D", "O", " ", "M", "A", "T", "E", "R", "N", "O">> >>,
         entidad_registro |-> << <<"E", "N", "T", "I", "D", "A", "D", " ", "D", "E", " ", "R", "E", "G", "I", "S", "T", "R", "O">> >>,
         municipio_registro |-> << <<"M", "U", "N", "I", "C", "I", "P", "I", "O", " ", "D", "E", " ", "R", "E", "G", "I", "S", "T", "R", "O">> >>,
         lugar_nacimiento |-> << <<"L", "U", "G", "A", "R", " ", "D", "E", " ", "N", "A", "C", "I", "M", "I", "E", "N", "T", "O">> >>],
     curp |->
        [nombre |-> << <<"N", "O", "M", "B", "R", "E">>, <<"N", "O", "M", "B", "R", "E", " ", "S">>, <<"N", "O", "M", "B", "R", "E", "S">> >>,
         entidad_registro |-> << <<"E", "N", "T", "I", "D", "A", "D", " ", "D", "E", " ", "R", "E", "G", "I", "S", "T", "R", "O">>, <<"L", "U", "G", "A", "R", " ", "D", "E", " ", "R", "E", "G", "I", "S", "T", "R", "O">> >>],
     ine |->
        [nombre |-> << <<"N", "O", "M", "B", "R", "E">> >>,
         domicilio |-> << <<"D", "O", "M", "I", "C", "I", "L", "I", "O">> >>,
         clave_elector |-> << <<"C", "L", "A", "V", "E", " ", "D", "E", " ", "E", "L", "E", "C", "T", "O", "R">>, <<"C", "L", "A", "V", "E", " ", "D", "E", " ", " ", "E", "L", "E", "C", "T", "O", "R">> >>,
         fecha_nacimiento |-> << <<"F", "E", "C", "H", "A", " ", "D", "E", " ", "N", "A", "C", "I", "M", "I", "E", "N", "T", "O">>, <<"F", "E", "C", "H", "A", " ", "D", "E", "N", "A", "C", "I", "M", "I", "E", "N", "T", "O">> >>,
         vigencia |-> << <<"V", "I", "G", "E", "N", "C", "I", "A">> >>,
         seccion |-> << <<"S", "E", "C", "C", "I", "O", "N">>, <<"S", "E", "C", "C", "I", "Oacute", "N">> >>]]

\* LABEL_PREFIXES[tipo].get(k, [])
PrefixesOf(tipo, k) ==
    IF k \in DOMAIN LABEL_PREFIXES[tipo] THEN LABEL_PREFIXES[tipo][k] ELSE << >>

\* t.startswith(p)
StartsWith(t, p) == HasAt(t, 1, p)

RECURSIVE StripPrefixFrom(_, _, _)
\* the loop of _strip_any_prefix from prefix i on: the first prefix t starts
\* with is cut off, the rest is stripped, and the loop ends
StripPrefixFrom(t, prefixes, i) ==
    IF i > Len(prefixes) THEN t
    ELSE IF StartsWith(t, _norm_text(prefixes[i]))
         THEN StrStrip(SubSeq(t, Len(_norm_text(prefixes[i])) + 1, Len(t)))
         ELSE StripPrefixFrom(t, prefixes, i + 1)

\* _strip_any_prefix(s, prefixes)
_strip_any_prefix(s, prefixes) == StripPrefixFrom(_norm_text(s), prefixes, 1)

\* _clean_ine_sexo with the test on the first letter turned around
CleanSexoSwapped(s) ==
    LET t == _norm_text(s)
    IN  IF ~ReSearch(SEXO_REGEX, t) THEN EmptyStr
        ELSE IF Head(ReGroup0(SEXO_REGEX, t)) = "M" THEN << "H" >> ELSE << "M" >>

\* _clean_ine_sexo(s)
_clean_ine_sexo(s) ==
    LET t == _norm_text(s)
    IN  IF ~ReSearch(SEXO_REGEX, t) THEN EmptyStr
        ELSE IF Head(ReGroup0(SEXO_REGEX, t)) = "M" THEN << "M" >> ELSE << "H" >>

\* _pick_first_regex(s, pat)
_pick_first_regex(s, pat) ==
    LET t == _norm_text(s)
    IN  IF ReSearch(pat, t) THEN ReGroup0(pat, t) ELSE EmptyStr

\* _pick_first_regex_any(s, pat)
_pick_first_regex_any(s, pat) ==
    IF ReSearch(pat, _norm_text(s)) THEN ReGroup0(pat, _norm_text(s)) ELSE EmptyStr

\* the characters of [A-ZNtildeAacuteEacuteIacuteOacuteUacuteUuml ]
LettersAndSpace ==
    UpperSet \cup {"Ntilde", "Aacute", "Eacute", "Iacute", "Oacute", "Uacute", "Uuml", " "}

\* _only_letters_spaces(s)
_only_letters_spaces(s) ==
    LET t == _norm_text(s)
        rest == {t[i] : i \in 1..Len(t)} \ LettersAndSpace
    IN  StrStrip(CollapseFrom(CollapseFrom(t, rest, 1, 1), WhiteSet, 1, 1))

RECURSIVE SplitFrom(_, _)
\* str.split(): the maximal runs of non-whitespace characters of s[i..]
SplitFrom(s, i) ==
    IF i > Len(s) THEN << >>
    ELSE IF s[i] \in WhiteSet THEN SplitFrom(s, i + 1)
    ELSE LET e == SetMax({j \in i..Len(s) : \A h \in i..j : s[h] \notin WhiteSet})
         IN  << SubSeq(s, i, e) >> \o SplitFrom(s, e + 1)

StrSplit(s) == SplitFrom(s, 1)

\* _pick_first_state_in_text(s): the first run of 3, then of 2, then of 1 words
\* that names a state
_pick_first_state_in_text(s) ==
    LET parts == StrSplit(_only_letters_spaces(s))
        Cand(n, i) == StrJoin(SubSeq(parts, i, i + n - 1), << " " >>)
        Hits(n) == {i \in 1..(Len(parts) - n + 1) : Cand(n, i) \in ESTADOS}
    IN  IF Hits(3) # {} THEN Cand(3, SetMin(Hits(3)))
        ELSE IF Hits(2) # {} THEN Cand(2, SetMin(Hits(2)))
        ELSE IF Hits(1) # {} THEN Cand(1, SetMin(Hits(1)))
        ELSE EmptyStr

\* _clean_address_line(s)
_clean_address_line(s) ==
    LET t == _norm_text(s)
        lead == {i \in 1..Len(t) : \A h \in 1..i : t[h] \notin AlnumUpperSet}
        cut == IF lead = {} THEN t ELSE SubSeq(t, SetMax(lead) + 1, Len(t))
    IN  StrStrip(CollapseFrom(cut, WhiteSet, 2, 1))

\* re.sub(r"[^A-Z0-9]", "", s)
OnlyAlnumUpper(s) == LET Keep(c) == c \in AlnumUpperSet IN SelectSeq(s, Keep)

\* the fields the ine branch strips a label prefix from
IneStripKeys == {"nombre", "domicilio", "clave_elector", "fecha_nacimiento", "vigencia", "seccion"}

\* the value the ine branch leaves in out[k] for the value v
CleanIne(k, v) ==
    LET s == IF k \in IneStripKeys /\ v # EmptyStr
             THEN _strip_any_prefix(v, PrefixesOf("ine", k)) ELSE v
    IN  IF k = "sexo" THEN _clean_ine_sexo(s)
        ELSE IF k = "anio_registro" THEN _pick_first_regex(s, YEAR_REGEX)
        ELSE IF k = "seccion" THEN _pick_first_regex(s, SECCION_REGEX)
        ELSE IF k = "vigencia" THEN _pick_first_regex(s, VIG_REGEX)
        ELSE IF k = "fecha_nacimiento" THEN _pick_first_regex(s, DATE_REGEX)
        ELSE IF k = "clave_elector"
             THEN IF _pick_first_regex_any(s, CLAVE_ELECTOR_REGEX) # EmptyStr
                  THEN _pick_first_regex_any(s, CLAVE_ELECTOR_REGEX)
                  ELSE OnlyAlnumUpper(_norm_text(s))
        ELSE IF k = "curp" THEN _pick_first_regex_any(s, CURP_REGEX)
        ELSE IF k = "domicilio" THEN _clean_address_line(s)
        ELSE s

\* the value the curp branch leaves in out[k]
CleanCurp(k, v) ==
    IF k = "curp" THEN _pick_first_regex_any(v, CURP_REGEX)
    ELSE IF k = "nombre"
         THEN _only_letters_spaces(_strip_any_prefix(v, LABEL_PREFIXES["curp"]["nombre"]))
    ELSE IF k = "entidad_registro"
         THEN LET tmp == _strip_any_prefix(v, LABEL_PREFIXES["curp"]["entidad_registro"])
              IN  IF _pick_first_state_in_text(tmp) # EmptyStr
                  THEN _pick_first_state_in_text(tmp)
                  ELSE _only_letters_spaces(tmp)
    ELSE v

ActaStripKeys ==
    {"nombres", "primer_apellido", "segundo_apellido", "entidad_registro",
     "municipio_registro", "sexo", "fecha_nacimiento", "lugar_nacimiento"}

ActaLetterKeys ==
    {"nombres", "primer_apellido", "segundo_apellido", "lugar_nacimiento", "municipio_registro"}

\* the sexo step of the acta branch
ActaSexo(s) ==
    LET val == _pick_first_regex_any(s, SEXO_REGEX)
    IN  IF val # EmptyStr /\ Head(val) = "M" THEN << "M" >>
        ELSE IF val # EmptyStr THEN << "H" >>
        ELSE EmptyStr

\* the value the acta branch leaves in out[k]
CleanActa(k, v) ==
    LET c == IF k = "curp" THEN _pick_first_regex_any(v, CURP_REGEX) ELSE v
        s == IF k \in ActaStripKeys /\ c # EmptyStr
             THEN _strip_any_prefix(c, PrefixesOf("acta", k)) ELSE c
        l == IF k \in ActaLetterKeys THEN _only_letters_spaces(s) ELSE s
    IN  IF k = "sexo" THEN ActaSexo(l)
        ELSE IF k = "fecha_nacimiento" THEN _pick_first_regex_any(l, DATE_REGEX)
        ELSE IF k = "entidad_registro"
             THEN IF _pick_first_state_in_text(l) # EmptyStr
                  THEN _pick_first_state_in_text(l) ELSE l
        ELSE l

\* _post_process_document_fields(tipo_documento, fields)
_post_process_document_fields(tipo, m) ==
    [k \in DOMAIN m |->
       IF tipo = "ine" THEN CleanIne(k, m[k])
       ELSE IF tipo = "curp" THEN CleanCurp(k, m[k])
       ELSE IF tipo = "acta" THEN CleanActa(k, m[k])
       ELSE m[k]]

-----------------------------------------------------------------------------
(* Calls of _coerce_geom and of Word: the geometry is any of the shapes the   *)
(* function tells apart, with numeric and non-numeric leaves.                 *)

\* the longest flat list of leaves handed to _coerce_geom
MaxGeomLen == 5

\* coordinates, in thousandths: below, inside, on the border of and beyond the unit interval
GeomNumbers == {-500, 250, 750, 1000, 1500}

\* the values a corner may hold
GeomLeaves == {PyNum(v) : v \in GeomNumbers} \cup {PyNaN, PyNumStr(500), PyOther}

SmallLeaves == {PyNum(250), PyNum(750), PyNumStr(500), PyOther}

CornerNames == {"x0", "y0", "x1", "y1"}

\* mappings of named corners, any corner possibly missing
DictGeoms == {PyDict(f) : f \in UNION {[S -> GeomLeaves] : S \in SUBSET CornerNames}}

\* flat sequences of four leaves
FlatGeoms == {PyList(<<a, b, c, d>>) : a \in GeomLeaves, b \in GeomLeaves,
                                       c \in GeomLeaves, d \in GeomLeaves}

\* pairs of points
PairGeoms == {PyList(<< PyList(<<a, b>>), PyList(<<c, d>>) >>) :
                 a \in GeomLeaves, b \in GeomLeaves, c \in GeomLeaves, d \in GeomLeaves}

\* other sequences: flat ones of any length, nested ones, a pair with a short
\* point, a polygon of four points
OtherGeoms ==
    {PyList(q) : q \in SeqsUpTo(SmallLeaves, MaxGeomLen)}
    \cup {PyList(<< PyList(<<a>>), PyList(<< b, PyList(<<c>>) >>), d >>) :
             a \in SmallLeaves, b \in SmallLeaves, c \in SmallLeaves, d \in SmallLeaves}
    \cup {PyList(<< PyList(<<a, b>>), PyList(<<c>>) >>) :
             a \in SmallLeaves, b \in SmallLeaves, c \in SmallLeaves}
    \cup {PyList(<< PyList(<<PyNum(a), PyNum(b)>>), PyList(<<PyNum(c), PyNum(b)>>),
                    PyList(<<PyNum(c), PyNum(d)>>), PyList(<<PyNum(a), PyNum(d)>>) >>) :
             a \in {250, 750}, b \in {250, 750}, c \in {250, 750}, d \in {250, 750}}

\* values that are no container
ScalarGeoms == GeomLeaves \cup {PyNone}

GeomInputs == DictGeoms \cup FlatGeoms \cup PairGeoms \cup OtherGeoms \cup ScalarGeoms

\* the flat 4-number form of a rectangle
FlatForm(r) == PyList(<< PyNum(r.xmin), PyNum(r.ymin), PyNum(r.xmax), PyNum(r.ymax) >>)

geomOthers == <<earlierVars, layoutVars, lastVars>>

GeomInit ==
    /\ gpc = "call"
    /\ g_geom \in GeomInputs
    /\ g_rect = << >>
    /\ g_word = << >>
    /\ g_again = << >>
    /\ EarlierIdle
    /\ LayoutIdle
    /\ LastIdle

\* xmin, ymin, xmax, ymax = _coerce_geom(geom)
CoerceCall ==
    /\ gpc = "call"
    /\ gpc' = "returned"
    /\ g_rect' = _coerce_geom(g_geom)
    /\ UNCHANGED <<g_geom, g_word, g_again, geomOthers>>

\* Word("A", 0, geom)
BuildWord ==
    /\ gpc = "returned"
    /\ gpc' = "word"
    /\ g_word' = Word(<< "A" >>, 0, g_geom)
    /\ UNCHANGED <<g_geom, g_rect, g_again, geomOthers>>

\* _coerce_geom of the flat form of the rectangle just returned
CoerceAgain ==
    /\ gpc = "word"
    /\ gpc' = "again"
    /\ g_again' = _coerce_geom(FlatForm(g_rect))
    /\ UNCHANGED <<g_geom, g_rect, g_word, geomOthers>>

GeomNext == CoerceCall \/ BuildWord \/ CoerceAgain

SpecGeom == GeomInit /\ [][GeomNext]_vars

-----------------------------------------------------------------------------
(* Properties of _coerce_geom *)

Coerced == gpc \in {"returned", "word", "again"}

\* a rectangle inside the unit square with min <= max on both axes
InUnitSquare(r) ==
    /\ 0 <= r.xmin /\ r.xmin <= r.xmax /\ r.xmax <= 1000
    /\ 0 <= r.ymin /\ r.ymin <= r.ymax /\ r.ymax <= 1000

UnitBox == [xmin |-> 0, ymin |-> 0, xmax |-> 1000, ymax |-> 1000]

\* C12: for every geometry input, of any shape, _coerce_geom returns a rectangle
\* with 0 <= xmin <= xmax <= 1 and 0 <= ymin <= ymax <= 1, and so every Word
\* built from a geometry has such a rectangle
C12_RectangleInUnitSquare ==
    /\ Coerced => InUnitSquare(g_rect)
    /\ gpc \in {"word", "again"} => InUnitSquare(g_word)

\* the leaves a well-formed rectangle is written with
IsUnitNumber(x) == x.k = "num" /\ 0 <= x.v /\ x.v <= 1000

\* geom writes a well-formed rectangle as named corners, as a flat 4-number
\* sequence or as a pair of points; its corners are then in c
WellFormedCorners(c) ==
    /\ \A i \in 1..4 : IsUnitNumber(c[i])
    /\ c[1].v <= c[3].v
    /\ c[2].v <= c[4].v

\* the corner leaves of the three forms (the empty sequence for another shape)
CornerLeaves(geom) ==
    IF geom.k = "dict" /\ DOMAIN geom.items = CornerNames
    THEN << geom.items["x0"], geom.items["y0"], geom.items["x1"], geom.items["y1"] >>
    ELSE IF geom.k = "list" /\ Len(geom.items) = 4
    THEN geom.items
    ELSE IF /\ geom.k = "list" /\ Len(geom.items) = 2
            /\ \A i \in 1..2 : geom.items[i].k = "list" /\ Len(geom.items[i].items) = 2
    THEN geom.items[1].items \o geom.items[2].items
    ELSE << >>

IsWellFormedInput(geom) ==
    /\ CornerLeaves(geom) # << >>
    /\ \A i \in 1..4 : CornerLeaves(geom)[i].k # "list"
    /\ WellFormedCorners(CornerLeaves(geom))

\* C13: a well-formed rectangle given as named corners, as a flat 4-number
\* sequence or as a pair of points is returned exactly; and coercing the flat
\* form of any result of _coerce_geom returns that result unchanged
C13_GeometryRoundTrip ==
    /\ (Coerced /\ IsWellFormedInput(g_geom)) =>
          LET c == CornerLeaves(g_geom)
          IN  g_rect = [xmin |-> c[1].v, ymin |-> c[2].v, xmax |-> c[3].v, ymax |-> c[4].v]
    /\ gpc = "again" => g_again = g_rect

\* the number of leaves of geom that float() accepts
NumericLeaves(geom) ==
    IF geom.k = "dict"
    THEN Cardinality({c \in DOMAIN geom.items : Convertible(geom.items[c])})
    ELSE IF geom.k = "list" THEN Len(SelectSeq(_flatten(geom), Convertible))
    ELSE 0

\* C18 as claimed: every input that does not supply four numeric values (a
\* non-container, named corners or a pair of points with a missing or non-numeric
\* corner, a nested structure with fewer than four numeric leaves) yields exactly
\* the unit box (0, 0, 1, 1)
C18_UnitBoxUnlessFourNumbers ==
    (Coerced /\ NumericLeaves(g_geom) < 4) => g_rect = UnitBox

\* geom is a mapping, or a pair of points
IsCornerwise(geom) ==
    \/ geom.k = "dict"
    \/ /\ geom.k = "list" /\ Len(geom.items) = 2
       /\ \A i \in 1..2 : geom.items[i].k = "list" /\ Len(geom.items[i].items) = 2

\* corner i of a mapping or of a pair of points (None when the mapping lacks it)
CornerAt(geom, i) ==
    IF geom.k = "dict" THEN DictGet(geom, << "x0", "y0", "x1", "y1" >>[i])
    ELSE geom.items[(i + 1) \div 2].items[2 - (i % 2)]

\* the flat 4-number sequence of the corners of geom, each corner that is
\* missing or not numeric replaced by its own default: 0 for x0 and y0, 1 for
\* x1 and y1
WithCornerDefaults(geom) ==
    PyList([i \in 1..4 |->
              LET x == CornerAt(geom, i)
              IN  IF x.k = "nan" THEN PyNaN
                  ELSE IF Convertible(x) THEN PyNum(x.v)
                  ELSE IF i <= 2 THEN PyNum(0) ELSE PyNum(1000)])

\* C18 amended: the unit box is returned for a non-container and for a sequence
\* that is neither four numbers nor a pair of points and has fewer than four
\* numeric leaves; for named corners and for a pair of points every corner that
\* is missing or not numeric is replaced by its own default (0 for x0, y0; 1 for
\* x1, y1) and the supplied corners are kept: the result is that of the flat
\* sequence of the corners so completed
C18_PerCornerDefaults ==
    Coerced =>
      /\ g_geom.k \notin {"dict", "list"} => g_rect = UnitBox
      /\ (g_geom.k = "list" /\ ~IsCornerwise(g_geom) /\ NumericLeaves(g_geom) < 4) =>
            g_rect = UnitBox
      /\ IsCornerwise(g_geom) => g_rect = _coerce_geom(WithCornerDefaults(g_geom))

\* C18 witness: named corners without x0 were coerced, and the supplied corners
\* are in the result next to the default of the missing one
C18_Witness ==
    /\ Coerced
    /\ g_geom.k = "dict"
    /\ DOMAIN g_geom.items = {"y0", "x1", "y1"}
    /\ g_geom.items["y0"] = PyNum(250)
    /\ g_geom.items["x1"] = PyNum(750)
    /\ g_geom.items["y1"] = PyNum(750)
    /\ g_rect = [xmin |-> 0, ymin |-> 250, xmax |-> 750, ymax |-> 750]

-----------------------------------------------------------------------------
(* Calls of _build_lines_from_export and of _find_label: the export is a     *)
(* two-page result whose lines are drawn from LayoutLines and spread over    *)
(* the pages and their blocks in any order.                                  *)

\* at most this many lines in an export
MaxLayoutLines == 2

\* the OCR lines a page may carry, as the engine exports them
LayoutLines ==
    <<
      \* FECHA, a stray word, DE NACIMIENTO and a date
      [words |-> <<
          [value |-> <<"F", "E", "C", "H", "A">>, geometry |-> PyList(<< PyNum(0), PyNum(100), PyNum(80), PyNum(150) >>)],
          [value |-> <<"X">>, geometry |-> PyList(<< PyNum(100), PyNum(100), PyNum(180), PyNum(150) >>)],
          [value |-> <<"D", "E">>, geometry |-> PyList(<< PyNum(200), PyNum(100), PyNum(280), PyNum(150) >>)],
          [value |-> <<"N", "A", "C", "I", "M", "I", "E", "N", "T", "O">>, geometry |-> PyList(<< PyNum(300), PyNum(100), PyNum(380), PyNum(150) >>)],
          [value |-> <<"0", "5", "/", "0", "7", "/", "1", "9", "9", "0">>, geometry |-> PyList(<< PyNum(400), PyNum(100), PyNum(480), PyNum(150) >>)] >>],
      \* both aliases of fecha_nacimiento start at FECHA; the engine lists DENACIMIENTO first
      [words |-> <<
          [value |-> <<"D", "E", "N", "A", "C", "I", "M", "I", "E", "N", "T", "O">>, geometry |-> PyList(<< PyNum(100), PyNum(200), PyNum(180), PyNum(250) >>)],
          [value |-> <<"F", "e", "c", "h", "a">>, geometry |-> PyList(<< PyNum(0), PyNum(200), PyNum(80), PyNum(250) >>)],
          [value |-> <<"D", "E">>, geometry |-> PyList(<< PyNum(200), PyNum(200), PyNum(280), PyNum(250) >>)],
          [value |-> <<"N", "A", "C", "I", "M", "I", "E", "N", "T", "O">>, geometry |-> PyList(<< PyNum(300), PyNum(200), PyNum(380), PyNum(250) >>)] >>],
      \* FECHA with no DE after it
      [words |-> <<
          [value |-> <<"N", "A", "C", "I", "M", "I", "E", "N", "T", "O">>, geometry |-> PyList(<< PyNum(0), PyNum(300), PyNum(80), PyNum(350) >>)],
          [value |-> <<"D", "E">>, geometry |-> PyList(<< PyNum(100), PyNum(300), PyNum(180), PyNum(350) >>)],
          [value |-> <<"F", "E", "C", "H", "A">>, geometry |-> PyList(<< PyNum(200), PyNum(300), PyNum(280), PyNum(350) >>)],
          [value |-> <<"D", "E", "N", "A", "C", "I", "M", "I", "E", "N", "T", "O">>, geometry |-> PyList(<< PyNum(300), PyNum(300), PyNum(380), PyNum(350) >>)] >>],
      \* two words with one and the same geometry
      [words |-> <<
          [value |-> <<"P", "r", "i", "m", "e", "r">>, geometry |-> PyList(<< PyNum(0), PyNum(400), PyNum(80), PyNum(450) >>)],
          [value |-> <<"A", "P", "E", "L", "L", "I", "D", "O">>, geometry |-> PyList(<< PyNum(100), PyNum(400), PyNum(180), PyNum(450) >>)],
          [value |-> <<"a", "p", "e", "l", "l", "i", "d", "o">>, geometry |-> PyList(<< PyNum(100), PyNum(400), PyNum(180), PyNum(450) >>)],
          [value |-> <<"P", "A", "T", "E", "R", "N", "O">>, geometry |-> PyList(<< PyNum(200), PyNum(400), PyNum(280), PyNum(450) >>)] >>],
      \* the vertical midpoint of the first line; a word without value and one without geometry
      [words |-> <<
          [value |-> <<"h", "o", "l", "a">>, geometry |-> PyList(<< PyNum(0), PyNum(90), PyNum(80), PyNum(160) >>)],
          [value |-> EmptyStr, geometry |-> PyList(<< PyNum(100), PyNum(90), PyNum(180), PyNum(160) >>)],
          [value |-> <<"X">>, geometry |-> PyNone] >>],
      \* no usable word
      [words |-> <<
          [value |-> EmptyStr, geometry |-> PyList(<< PyNum(0), PyNum(600), PyNum(80), PyNum(650) >>)],
          [value |-> <<"X">>, geometry |-> PyNone] >>],
      \* pairs of points with reversed endpoints
      [words |-> <<
          [value |-> <<"S", "E", "X", "O">>, geometry |-> PyList(<< PyList(<< PyNum(80), PyNum(750) >>), PyList(<< PyNum(0), PyNum(700) >>) >>)],
          [value |-> <<"H">>, geometry |-> PyList(<< PyList(<< PyNum(180), PyNum(750) >>), PyList(<< PyNum(100), PyNum(700) >>) >>)] >>],
      \* the same xmin: the narrower word has the smaller centre
      [words |-> <<
          [value |-> <<"N", "O", "M", "B", "R", "E">>, geometry |-> PyList(<< PyNum(0), PyNum(800), PyNum(80), PyNum(850) >>)],
          [value |-> <<"L", "U", "Z">>, geometry |-> PyList(<< PyNum(100), PyNum(800), PyNum(300), PyNum(850) >>)],
          [value |-> <<"A", "N", "A">>, geometry |-> PyList(<< PyNum(100), PyNum(800), PyNum(180), PyNum(850) >>)] >>]
    >>

\* the export with the lines q (indices of LayoutLines, in the engine's order),
\* line i on page pg[i]; when split every line is a block of its own, otherwise
\* a page has one block
Arrange(q, pg, split) ==
    LET OnPage(p) == LET Here(i) == pg[i] = p IN SelectSeq(q, Here)
        Blocks(p) ==
            LET on == OnPage(p)
            IN  IF split THEN [j \in 1..Len(on) |-> [lines |-> << LayoutLines[on[j]] >>]]
                ELSE IF on = << >> THEN << >>
                ELSE << [lines |-> [j \in 1..Len(on) |-> LayoutLines[on[j]]]] >>
    IN  [nonempty |-> TRUE, pages |-> [p \in 1..2 |-> [blocks |-> Blocks(p)]]]

\* the orders in which the lines of S may be listed
OrdersOf(S) ==
    {q \in [1..Cardinality(S) -> S] : \A i, j \in 1..Cardinality(S) : i # j => q[i] # q[j]}

\* the alias lists handed to _find_label
AliasLists ==
    {INE_LABELS["fecha_nacimiento"], INE_LABELS["clave_elector"], INE_LABELS["sexo"],
     CURP_LABELS["nombre"], ACTA_LABELS["primer_apellido"], ACTA_LABELS["segundo_apellido"]}

layoutOthers == <<earlierVars, geomVars, lastVars>>

LayoutInit ==
    /\ lpc = "call"
    /\ \E S \in {X \in SUBSET (1..Len(LayoutLines)) : Cardinality(X) <= MaxLayoutLines} :
         \E q \in OrdersOf(S), pg \in [S -> 1..2], split \in BOOLEAN :
            /\ l_export = Arrange(q, pg, split)
            /\ l_other = Arrange(Ascending(S), pg, ~split)
    /\ l_lines = << >>
    /\ l_lines2 = << >>
    /\ l_aliases = << >>
    /\ l_hit = << >>
    /\ EarlierIdle
    /\ GeomIdle
    /\ LastIdle

\* lines = _build_lines_from_export(export)
BuildLines ==
    /\ lpc = "call"
    /\ lpc' = "built"
    /\ l_lines' = _build_lines_from_export(l_export)
    /\ UNCHANGED <<l_export, l_other, l_lines2, l_aliases, l_hit, layoutOthers>>

\* the same call on the reordered export
BuildReordered ==
    /\ lpc = "built"
    /\ lpc' = "both"
    /\ l_lines2' = _build_lines_from_export(l_other)
    /\ UNCHANGED <<l_export, l_other, l_lines, l_aliases, l_hit, layoutOthers>>

\* hit = _find_label(lines, aliases)
FindLabel ==
    /\ lpc = "both"
    /\ lpc' = "found"
    /\ \E aliases \in AliasLists :
          /\ l_aliases' = aliases
          /\ l_hit' = _find_label(l_lines, aliases)
    /\ UNCHANGED <<l_export, l_other, l_lines, l_lines2, layoutOthers>>

LayoutNext == BuildLines \/ BuildReordered \/ FindLabel

SpecLayout == LayoutInit /\ [][LayoutNext]_vars

-----------------------------------------------------------------------------
(* Properties of _build_lines_from_export and of _find_label *)

LinesBuilt == lpc \in {"built", "both", "found"}

\* the sort key of a line as its words give it: the page and twice the midpoint
\* between the least ymin and the greatest ymax of the words
PageAndMidpoint(L) ==
    <<L.page, SetMin({L.words[i].ymin : i \in 1..Len(L.words)})
                + SetMax({L.words[i].ymax : i \in 1..Len(L.words)})>>

\* the lines of a list have pairwise distinct (page, midpoint) keys
DistinctLineKeys(lines) ==
    \A i, j \in 1..Len(lines) : i # j => PageAndMidpoint(lines[i]) # PageAndMidpoint(lines[j])

\* C14: the lines are returned in ascending order of (page, vertical midpoint);
\* when the keys of the lines are pairwise distinct the order is strictly
\* increasing and the result is the same for every order of the blocks and lines
\* inside the pages of the export
C14_ReadingOrder ==
    /\ LinesBuilt =>
          /\ \A i, j \in 1..Len(l_lines) :
                i < j => ~PairLess(PageAndMidpoint(l_lines[j]), PageAndMidpoint(l_lines[i]))
          /\ DistinctLineKeys(l_lines) =>
                \A i \in 1..(Len(l_lines) - 1) :
                   PairLess(PageAndMidpoint(l_lines[i]), PageAndMidpoint(l_lines[i + 1]))
    /\ (lpc \in {"both", "found"} /\ DistinctLineKeys(l_lines)) => l_lines2 = l_lines

\* C14 witness: two lines of one page that the engine listed bottom line first
\* were built into reading order, as was the reordered export
C14_Witness ==
    /\ lpc = "both"
    /\ Len(l_lines) = 2
    /\ l_lines[1].page = l_lines[2].page
    /\ DistinctLineKeys(l_lines)
    /\ l_lines2 = l_lines
    /\ \E p \in 1..2 :
          /\ Len(l_export.pages[p].blocks) = 2
          /\ Len(l_other.pages[p].blocks) = 1
          /\ l_export.pages[p].blocks[1].lines[1] = l_other.pages[p].blocks[1].lines[2]

\* the pair (xmin, center-x) of a word, the centre taken twice
XminAndCentre(w) == <<w.xmin, w.xmin + w.xmax>>

\* C19 as claimed: in every line built the words are in strictly ascending order
\* of (xmin, center-x)
C19_WordsStrictlyAscending ==
    LinesBuilt =>
      \A l \in 1..Len(l_lines) :
         \A i \in 1..(Len(l_lines[l].words) - 1) :
            PairLess(XminAndCentre(l_lines[l].words[i]), XminAndCentre(l_lines[l].words[i + 1]))

\* C19 amended: in every line built the words are in ascending order of
\* (xmin, center-x): the pair of a word is never greater than the pair of the word
\* after it, and it is strictly smaller unless the two words have the same xmin
\* and the same xmax
C19_WordsAscending ==
    LinesBuilt =>
      \A l \in 1..Len(l_lines) :
         \A i \in 1..(Len(l_lines[l].words) - 1) :
            LET w == l_lines[l].words[i]
                v == l_lines[l].words[i + 1]
            IN  /\ ~PairLess(XminAndCentre(v), XminAndCentre(w))
                /\ (w.xmin # v.xmin \/ w.xmax # v.xmax) =>
                      PairLess(XminAndCentre(w), XminAndCentre(v))

\* C19 witness: a line was built whose words the engine listed out of order, and
\* a line with two words of one and the same geometry next to each other
C19_Witness ==
    /\ LinesBuilt
    /\ \E l \in 1..Len(l_lines) :
          /\ l_lines[l].words[1].text = << "F", "e", "c", "h", "a" >>
          /\ l_lines[l].words[2].norm = << "D", "E", "N", "A", "C", "I", "M", "I", "E", "N", "T", "O" >>
    /\ \E l \in 1..Len(l_lines) :
          \E i \in 1..(Len(l_lines[l].words) - 1) :
             XminAndCentre(l_lines[l].words[i]) = XminAndCentre(l_lines[l].words[i + 1])

RECURSIVE EmbeddingEnds(_, _, _, _)
\* the positions at which an occurrence of the tokens seq[t..] may end when they
\* occur in order among the words from position from on
EmbeddingEnds(words, seq, t, from) ==
    UNION { IF t = Len(seq) THEN {p} ELSE EmbeddingEnds(words, seq, t + 1, p + 1) :
              p \in {x \in from..Len(words) : words[x].norm = seq[t]} }

\* alias seq matches at start word i of line L: word i is its first token and
\* its remaining tokens occur in order among the later words of the line
AliasMatchesAt(L, i, seq) ==
    /\ L.words[i].norm = seq[1]
    /\ \/ Len(seq) = 1
       \/ EmbeddingEnds(L.words, seq, 2, i + 1) # {}

\* the end of the earliest occurrence of alias seq starting at word i
EarliestEnd(L, i, seq) ==
    IF Len(seq) = 1 THEN i ELSE SetMin(EmbeddingEnds(L.words, seq, 2, i + 1))

\* the (line, start word, alias) triples at which an alias matches
Matches ==
    UNION {{<<l, i, a>> : i \in 1..Len(l_lines[l].words), a \in 1..Len(l_aliases)} :
             l \in 1..Len(l_lines)}
      \ {c \in UNION {{<<l, i, a>> : i \in 1..Len(l_lines[l].words), a \in 1..Len(l_aliases)} :
                        l \in 1..Len(l_lines)} :
            ~AliasMatchesAt(l_lines[c[1]], c[2], l_aliases[c[3]])}

TripleLess(c, e) ==
    \/ c[1] < e[1]
    \/ (c[1] = e[1] /\ c[2] < e[2])
    \/ (c[1] = e[1] /\ c[2] = e[2] /\ c[3] < e[3])

\* C20: _find_label returns none iff no alias matches at any word of any line;
\* otherwise it returns the match that is first by (line in reading order, start
\* word, alias in configured order), where an alias matches at a start word when
\* that word is its first token and its other tokens follow in order among the
\* later words of the line, other words lying between them or not
C20_FirstMatchInReadingOrder ==
    lpc = "found" =>
       /\ l_hit.found <=> Matches # {}
       /\ l_hit.found =>
             LET c == CHOOSE x \in Matches : \A e \in Matches : x = e \/ TripleLess(x, e)
             IN  /\ l_hit.line = c[1]
                 /\ l_hit.page = l_lines[c[1]].page
                 /\ l_hit.line_idx = c[2]
                 /\ l_hit.k0 = c[2]
                 /\ l_hit.k1 = EarliestEnd(l_lines[c[1]], c[2], l_aliases[c[3]])

\* C20 witness: a label was found in the first of two lines, by its first alias
\* and over a word lying between two of its tokens, while its second alias
\* matches in the second line
C20_Witness ==
    /\ lpc = "found"
    /\ l_aliases = INE_LABELS["fecha_nacimiento"]
    /\ l_hit.found
    /\ Len(l_lines) = 2
    /\ l_hit.line = 1
    /\ l_hit.k0 = 1
    /\ l_hit.k1 = 4
    /\ l_lines[1].words[2].norm = << "X" >>
    /\ AliasMatchesAt(l_lines[2], 3, l_aliases[2])

-----------------------------------------------------------------------------
(* Calls of _post_process_document_fields: the cleaner and the cleaner again *)

\* the number of fields of a cleaned field map
MaxCleanKeys == 1

\* raw candidates: crops with leftover label words, punctuation, lower case
CleanValues ==
    { EmptyStr,
      <<"N", "O", "M", "B", "R", "E", " ", "N", "O", "M", "B", "R", "E", " ", "A", "N", "A">>,
      <<":", " ", "D", "O", "M", "I", "C", "I", "L", "I", "O", " ", "C", "A", "L", "L", "E", " ", "5">>,
      <<"S", "E", "X", "O", " ", "M", "U", "J", "E", "R">>,
      <<"H">>,
      <<"h", "o", "m", "b", "r", "e", "_", "1">>,
      <<"x", " ", "H", "O", "M", "B", "R", "E", " ", "M">>,
      <<"C", "L", "A", "V", "E", " ", "D", "E", " ", "E", "L", "E", "C", "T", "O", "R", " ", "A", "B", "1", "2", "C", "D", "3", "4">>,
      <<"A", "-", "1", " ", "b">>,
      <<"V", "I", "G", "E", "N", "C", "I", "A", " ", "2", "0", "2", "0", " ", "-", " ", "2", "0", "3", "0">>,
      <<"L", "U", "G", "A", "R", " ", "D", "E", " ", "R", "E", "G", "I", "S", "T", "R", "O", " ", "N", "U", "E", "V", "O", " ", "L", "E", "O", "N", " ", "5">>,
      <<"0", "5", "/", "0", "7", "/", "1", "9", "9", "0", " ", "M">>,
      <<"A", "N", "A">> }

\* the fields the cleaner treats for each type, and one it does not know
CleanKeys ==
    [ine |-> IneStripKeys \cup {"sexo", "anio_registro", "curp", "otro"},
     curp |-> {"curp", "nombre", "entidad_registro", "otro"},
     acta |-> ActaStripKeys \cup {"curp", "otro"}]

cleanOthers == <<earlierVars, geomVars, layoutVars, tplVars, restVars>>

CleanInit ==
    /\ cpc = "call"
    /\ c_tipo \in {"ine", "curp", "acta"}
    /\ \E K \in {X \in SUBSET CleanKeys[c_tipo] : Cardinality(X) <= MaxCleanKeys} :
          c_fields \in [K -> CleanValues]
    /\ c_once = << >>
    /\ c_twice = << >>
    /\ c_prefixed = << >>
    /\ c_labelled = << >>
    /\ EarlierIdle
    /\ GeomIdle
    /\ LayoutIdle
    /\ TplIdle
    /\ RestIdle

\* out = _post_process_document_fields(tipo_documento, fields)
CleanCall ==
    /\ cpc = "call"
    /\ c_once' = _post_process_document_fields(c_tipo, c_fields)
    /\ cpc' = "cleaned"
    /\ UNCHANGED <<c_tipo, c_fields, c_twice, c_prefixed, c_labelled, cleanOthers>>

\* _post_process_document_fields(tipo_documento, out)
CleanAgain ==
    /\ cpc = "cleaned"
    /\ c_twice' = _post_process_document_fields(c_tipo, c_once)
    /\ cpc' = "again"
    /\ UNCHANGED <<c_tipo, c_fields, c_once, c_prefixed, c_labelled, cleanOthers>>

\* the fields of m that have label prefixes for the type
LabelledKeys(tipo, m) == DOMAIN m \cap DOMAIN LABEL_PREFIXES[tipo]

\* _post_process_document_fields(tipo_documento, fields') where fields' holds
\* "p V" for each value V of a field with label prefixes, p one of them
CleanLabelled ==
    /\ cpc = "cleaned"
    /\ LabelledKeys(c_tipo, c_fields) # {}
    /\ \E pick \in [LabelledKeys(c_tipo, c_fields) -> 1..3] :
          /\ \A k \in DOMAIN pick : pick[k] <= Len(LABEL_PREFIXES[c_tipo][k])
          /\ c_prefixed' = [k \in DOMAIN c_fields |->
                               IF k \in DOMAIN pick
                               THEN LABEL_PREFIXES[c_tipo][k][pick[k]] \o << " " >> \o c_fields[k]
                               ELSE c_fields[k]]
          /\ c_labelled' = _post_process_document_fields(c_tipo, c_prefixed')
    /\ cpc' = "labelled"
    /\ UNCHANGED <<c_tipo, c_fields, c_once, c_twice, cleanOthers>>

CleanNext == CleanCall \/ CleanAgain \/ CleanLabelled

SpecClean == CleanInit /\ [][CleanNext]_vars

\* C15: cleaning the output of the cleaner once more returns that output, field
\* by field, for the types ine, curp and acta and every field map
C15_CleanerIdempotent ==
    cpc = "again" => \A k \in DOMAIN c_once : c_twice[k] = c_once[k]

RECURSIVE WordRunsFrom(_, _)
\* the standalone tokens of t from position i on: its maximal runs of word characters
WordRunsFrom(t, i) ==
    IF i > Len(t) THEN << >>
    ELSE IF t[i] \notin WordSet THEN WordRunsFrom(t, i + 1)
    ELSE LET e == SetMax({j \in i..Len(t) : \A h \in i..j : t[h] \in WordSet})
         IN  << SubSeq(t, i, e) >> \o WordRunsFrom(t, e + 1)

FemaleTokens == { <<"M">>, <<"M", "U", "J", "E", "R">> }

MaleTokens == { <<"H">>, <<"H", "O", "M", "B", "R", "E">> }

\* the first standalone sex token of the normalized candidate, << >> if none
FirstSexToken(v) ==
    LET runs == WordRunsFrom(_norm_text(v), 1)
        hits == {i \in 1..Len(runs) : runs[i] \in FemaleTokens \cup MaleTokens}
    IN  IF hits = {} THEN EmptyStr ELSE runs[SetMin(hits)]

\* C24: a label prefix of the field put before a value is stripped completely:
\* cleaning "p V" gives what cleaning "V" gives, for every type, every field
\* with label prefixes and every prefix p of the field
C24_LabelPrefixStripped ==
    cpc = "labelled" =>
        \A k \in LabelledKeys(c_tipo, c_fields) : c_labelled[k] = c_once[k]

\* the tokens of a value once its label prefix is cut off and everything but
\* letters and blanks is taken out
EntityTokens(tipo, v) ==
    StrSplit(_only_letters_spaces(_strip_any_prefix(v, PrefixesOf(tipo, "entidad_registro"))))

\* the window of n tokens that starts at token i, blank-joined
TokenWindow(toks, n, i) == StrJoin(SubSeq(toks, i, i + n - 1), << " " >>)

\* the starts of the windows of n tokens that are names of the catalog
CatalogWindows(toks, n) ==
    {i \in 1..(Len(toks) - n + 1) : TokenWindow(toks, n, i) \in ESTADOS}

\* C25: the cleaned entidad_registro of a curp or an acta is the first window
\* of 3 tokens that is a state of the catalog, else the first of 2, else the
\* first of 1; when no window is in the catalog it is the value reduced to
\* letters and blanks
C25_StateOrLettersOnly ==
    (cpc # "call" /\ c_tipo \in {"curp", "acta"} /\ "entidad_registro" \in DOMAIN c_fields) =>
        LET toks == EntityTokens(c_tipo, c_fields["entidad_registro"])
            got  == c_once["entidad_registro"]
        IN  IF CatalogWindows(toks, 3) # {}
            THEN got = TokenWindow(toks, 3, SetMin(CatalogWindows(toks, 3)))
            ELSE IF CatalogWindows(toks, 2) # {}
            THEN got = TokenWindow(toks, 2, SetMin(CatalogWindows(toks, 2)))
            ELSE IF CatalogWindows(toks, 1) # {}
            THEN got = TokenWindow(toks, 1, SetMin(CatalogWindows(toks, 1)))
            ELSE /\ got = StrJoin(toks, << " " >>)
                 /\ \A i \in 1..Len(got) : got[i] \in LettersAndSpace

\* C16: for the types ine and acta the cleaned sexo is "M" when the first
\* standalone sex token of the normalized candidate is M or MUJER, "H" when it
\* is H or HOMBRE, and "" when the candidate has no standalone sex token
C16_SexoCleaner ==
    (cpc # "call" /\ c_tipo \in {"ine", "acta"} /\ "sexo" \in DOMAIN c_fields) =>
        /\ c_once["sexo"] \in {EmptyStr, << "H" >>, << "M" >>}
        /\ FirstSexToken(c_fields["sexo"]) \in FemaleTokens <=> c_once["sexo"] = << "M" >>
        /\ FirstSexToken(c_fields["sexo"]) \in MaleTokens <=> c_once["sexo"] = << "H" >>
        /\ FirstSexToken(c_fields["sexo"]) = EmptyStr <=> c_once["sexo"] = EmptyStr

\* the candidate "SEXO MUJER" of an acta was cleaned to "M"
C16_Witness ==
    /\ cpc = "cleaned"
    /\ c_tipo = "acta"
    /\ "sexo" \in DOMAIN c_fields
    /\ c_fields["sexo"] = <<"S", "E", "X", "O", " ", "M", "U", "J", "E", "R">>
    /\ c_once["sexo"] = << "M" >>

-----------------------------------------------------------------------------
(* services/template_boxes.py and extract_by_template (services/extractor.py) *)

\* BASE_TEMPLATES, each box (x, y, w, h) in thousandths of the page
BASE_TEMPLATES ==
    [acta_carta_portrait |->
        [curp |-> <<665, 112, 220, 16>>,
         entidad_registro |-> <<670, 194, 220, 16>>,
         municipio_registro |-> <<643, 232, 280, 16>>,
         nombres |-> <<119, 326, 200, 16>>,
         primer_apellido |-> <<420, 327, 200, 16>>,
         segundo_apellido |-> <<697, 327, 220, 16>>,
         sexo |-> <<142, 387, 130, 16>>,
         fecha_nacimiento |-> <<438, 375, 130, 28>>,
         lugar_nacimiento |-> <<680, 372, 250, 32>>],
     curp_carta_landscape |->
        [curp |-> <<263, 174, 360, 25>>,
         nombre |-> <<251, 231, 550, 25>>,
         entidad_registro |-> <<459, 277, 150, 28>>],
     ine_9x6_h |->
        [nombre |-> <<327, 313, 350, 190>>,
         sexo |-> <<839, 253, 140, 75>>,
         domicilio |-> <<324, 555, 475, 140>>,
         clave_elector |-> <<499, 704, 300, 52>>,
         curp |-> <<324, 801, 310, 50>>,
         anio_registro |-> <<663, 801, 180, 50>>,
         fecha_nacimiento |-> <<319, 904, 160, 50>>,
         seccion |-> <<552, 906, 80, 50>>,
         vigencia |-> <<679, 905, 190, 50>>]]

\* {}: no template, no box
NoBoxes == [k \in {} |-> << >>]

\* _load_overrides() when the override file holds file
_load_overrides(allow, file) == IF ~allow THEN NoBoxes ELSE file

\* d.get(t, {})
BoxesOf(d, t) == IF t \in DOMAIN d THEN d[t] ELSE NoBoxes

\* get_templates(): BASE_TEMPLATES with the boxes of the override file laid over it
get_templates(allow, file) ==
    IF ~allow THEN BASE_TEMPLATES
    ELSE [t \in DOMAIN BASE_TEMPLATES \cup DOMAIN _load_overrides(allow, file) |->
            [k \in DOMAIN BoxesOf(BASE_TEMPLATES, t) \cup DOMAIN BoxesOf(_load_overrides(allow, file), t) |->
                IF k \in DOMAIN BoxesOf(_load_overrides(allow, file), t)
                THEN _load_overrides(allow, file)[t][k]
                ELSE BASE_TEMPLATES[t][k]]]

\* merged = copy.deepcopy(BASE_TEMPLATES): what the global BASE_TEMPLATES holds
\* once merged has been filled; without the copy it would be merged itself
BaseAfterMergeAliased(base, merged) == merged

BaseAfterMerge(base, merged) == base

\* overrides[template_id] = boxes
WithOverride(overrides, template_id, boxes) ==
    [t \in DOMAIN overrides \cup {template_id} |->
        IF t = template_id THEN boxes ELSE overrides[t]]

\* the scanned pages: what the OCR engine reads in the left and in the right half
Scans ==
    [scan1 |-> [left |-> <<"x", " ", "a", "b", "c", "d", "8", "0", "0", "1", "0", "1", "h", "d", "f", "r", "r", "l", "0", "9">>, right |-> <<"N", "O", "M", "B", "R", "E", " ", "A", "N", "A">>]]

\* _crop_rel(img, rel_box)
_crop_rel(img, rel_box) == [img |-> img, box |-> rel_box]

\* ocr_pil_image(roi): the text of the half of the page the crop starts in
ocr_pil_image(roi) ==
    IF roi.box[1] < 500 THEN Scans[roi.img].left ELSE Scans[roi.img].right

\* a missing template answered with an empty field map
TemplateNotFoundEmptyMap == [err |-> FALSE, fields |-> EmptyDict, crops |-> 0]

\* raise ValueError("Plantilla no encontrada para tipo_documento")
TemplateNotFound == [err |-> TRUE, fields |-> EmptyDict, crops |-> 0]

\* the value of fields[key] handed to the cleaner: the normalized text of the
\* crop, cut to the CURP for curp and acta, to letters and digits for the
\* clave_elector of an ine
CropField(tipo, key, curp_field, txt) ==
    IF tipo \in {"curp", "acta"} /\ key = curp_field /\ ReSearch(CURP_REGEX, _norm_text(txt))
    THEN ReGroup0(CURP_REGEX, _norm_text(txt))
    ELSE IF tipo = "ine" /\ key = "clave_elector" THEN OnlyAlnumUpper(_norm_text(txt))
    ELSE _norm_text(txt)

\* the loop over templates[tpl_name] and the steps after it
ExtractWith(tipo, img, boxes) ==
    [err |-> FALSE,
     fields |-> _post_process_document_fields(tipo,
                   [key \in DOMAIN boxes |->
                       CropField(tipo, key,
                                 IF "curp" \in DOMAIN boxes THEN "curp" ELSE "clave",
                                 ocr_pil_image(_crop_rel(img, boxes[key])))]),
     crops |-> Cardinality(DOMAIN boxes)]

\* tpl_name = template_id or DEFAULT_TEMPLATE.get(tipo_documento)
TplName(tipo, template_id) ==
    IF template_id # NoTemplate THEN template_id ELSE DEFAULT_TEMPLATE(tipo)

\* extract_by_template(tipo_documento, file_bytes, template_id=template_id) when
\* the module global TEMPLATES holds templates
extract_by_template(tipo, img, template_id, templates) ==
    IF TplName(tipo, template_id) = NoTemplate \/ TplName(tipo, template_id) \notin DOMAIN templates
    THEN TemplateNotFound
    ELSE ExtractWith(tipo, img, templates[TplName(tipo, template_id)])

-----------------------------------------------------------------------------
(* The template store over time: calls of extract_by_template, saves and reloads *)

TplTypes == {"curp", "otros"}

\* template ids a caller gives: none, or one of its own
TplIds == {NoTemplate, "t1"}

\* template ids that are saved
SavedIds == {"curp_carta_landscape", "t1"}

\* the boxes a save carries
SavedBoxes ==
    { [k \in {"curp"} |-> <<700, 100, 200, 50>>],
      [k \in {"curp", "nombre"} |-> <<100, 100, 200, 50>>] }

\* the override files found at import
FilesAtImport == {NoBoxes, [t \in {"t1"} |-> [k \in {"nombre"} |-> <<100, 100, 200, 50>>]]}

NoCall == [tipo |-> "", img |-> "", template_id |-> "", out |-> TemplateNotFound, made |-> FALSE]

tplOthers == <<earlierVars, geomVars, layoutVars, cleanVars, restVars>>

\* import of services/template_boxes.py: TEMPLATES = get_templates()
TplInit ==
    /\ tpc = "start"
    /\ ALLOW_OVERRIDES \in BOOLEAN
    /\ overrides_file \in FilesAtImport
    /\ TEMPLATES = get_templates(ALLOW_OVERRIDES, overrides_file)
    /\ base_templates = BaseAfterMerge(BASE_TEMPLATES, TEMPLATES)
    /\ t_last = NoCall
    /\ t_kept = NoCall
    /\ EarlierIdle
    /\ GeomIdle
    /\ LayoutIdle
    /\ CleanIdle
    /\ RestIdle

\* a call of extract_by_template; the call before it may be kept for comparison
ExtractByTemplate ==
    \E tipo \in TplTypes, img \in DOMAIN Scans, template_id \in TplIds :
        /\ t_last' = [tipo |-> tipo, img |-> img, template_id |-> template_id,
                      out |-> extract_by_template(tipo, img, template_id, TEMPLATES),
                      made |-> TRUE]
        /\ t_kept' \in IF t_last.made THEN {t_kept, t_last} ELSE {t_kept}
        /\ tpc' = "extract"
        /\ UNCHANGED <<ALLOW_OVERRIDES, overrides_file, TEMPLATES, base_templates, tplOthers>>

\* save_template_override(template_id, boxes), as POST /ocr-tools/templates/{id}
\* calls it: refused when overrides are off, else written to the file and reloaded
SaveTemplateOverrideUnguarded ==
    \E template_id \in SavedIds, boxes \in SavedBoxes :
        /\ tpc' = "save"
        /\ overrides_file' = WithOverride(overrides_file, template_id, boxes)
        /\ TEMPLATES' = get_templates(ALLOW_OVERRIDES, overrides_file')
        /\ base_templates' = BaseAfterMerge(base_templates, TEMPLATES')
        /\ UNCHANGED <<ALLOW_OVERRIDES, t_last, t_kept, tplOthers>>

SaveTemplateOverride ==
    \E template_id \in SavedIds, boxes \in SavedBoxes :
        /\ IF ~ALLOW_OVERRIDES
           THEN /\ tpc' = "refused"
                /\ UNCHANGED <<overrides_file, TEMPLATES, base_templates>>
           ELSE /\ tpc' = "save"
                /\ overrides_file' =
                     WithOverride(_load_overrides(ALLOW_OVERRIDES, overrides_file), template_id, boxes)
                /\ TEMPLATES' = get_templates(ALLOW_OVERRIDES, overrides_file')
                /\ base_templates' = BaseAfterMerge(base_templates, TEMPLATES')
        /\ UNCHANGED <<ALLOW_OVERRIDES, t_last, t_kept, tplOthers>>

\* reload_templates()
ReloadTemplates ==
    /\ TEMPLATES' = get_templates(ALLOW_OVERRIDES, overrides_file)
    /\ base_templates' = BaseAfterMerge(base_templates, TEMPLATES')
    /\ tpc' = "reload"
    /\ UNCHANGED <<ALLOW_OVERRIDES, overrides_file, t_last, t_kept, tplOthers>>

TplNext == ExtractByTemplate \/ SaveTemplateOverride \/ ReloadTemplates

SpecTemplates == TplInit /\ [][TplNext]_vars

SameArguments(a, b) ==
    /\ a.tipo = b.tipo
    /\ a.img = b.img
    /\ a.template_id = b.template_id

\* C11: two calls of extract_by_template with the same arguments have the same
\* outcome, whatever saves, reloads and other calls came before or between them
C11_NoHiddenState ==
    (t_kept.made /\ t_last.made /\ SameArguments(t_kept, t_last)) => t_last.out = t_kept.out

\* C17: when neither the given template id nor the default template of the type
\* names a registered template, the call raises, no crop was sent to OCR and no
\* field map is returned
C17_RaisesWithoutTemplate ==
    (/\ tpc = "extract"
     /\ t_last.template_id \notin DOMAIN TEMPLATES
     /\ DEFAULT_TEMPLATE(t_last.tipo) \notin DOMAIN TEMPLATES) =>
        /\ t_last.out.err
        /\ t_last.out.crops = 0
        /\ t_last.out.fields = EmptyDict

\* a call for type otros without template id, and one with an unknown id, raised
C17_Witness ==
    /\ tpc = "extract"
    /\ t_last.tipo = "otros"
    /\ t_last.template_id = "t1"
    /\ "t1" \notin DOMAIN TEMPLATES
    /\ t_kept.made
    /\ t_kept.tipo = "otros"
    /\ t_kept.template_id = NoTemplate
    /\ t_kept.out.err
    /\ t_last.out.err

\* C29: with overrides off a save is refused and writes neither the override
\* file nor the active templates, the active templates are the base templates
\* at every moment, and the base templates are never changed, on or off.
C29_FrozenWithoutOverrides ==
    /\ [](~ALLOW_OVERRIDES => TEMPLATES = BASE_TEMPLATES)
    /\ [](base_templates = BASE_TEMPLATES)
    /\ [][(~ALLOW_OVERRIDES /\ tpc' \in {"save", "refused"}) =>
              (tpc' = "refused" /\ overrides_file' = overrides_file /\ TEMPLATES' = TEMPLATES)]_vars

\* a save was refused with overrides off while an override file exists
C29_Witness ==
    /\ tpc = "refused"
    /\ ~ALLOW_OVERRIDES
    /\ overrides_file # NoBoxes

-----------------------------------------------------------------------------
(* Calls of _find_label, _collect_right_same_line and                        *)
(* _collect_below_until_next_label on the lines of a two-page export         *)

\* at most this many lines in an export
MaxCollectLines == 4

\* the greatest max_lines handed to _collect_below_until_next_label
MaxBelowLines == 2

\* the OCR lines a page may carry
CollectLines ==
    <<
      \* the label of fecha_nacimiento with a wide stray mark between its words
      [words |-> <<
          [value |-> <<"F", "E", "C", "H", "A">>, geometry |-> PyList(<< PyNum(0), PyNum(100), PyNum(80), PyNum(150) >>)],
          [value |-> <<"~">>, geometry |-> PyList(<< PyNum(100), PyNum(100), PyNum(700), PyNum(150) >>)],
          [value |-> <<"D", "E">>, geometry |-> PyList(<< PyNum(200), PyNum(100), PyNum(280), PyNum(150) >>)],
          [value |-> <<"N", "A", "C", "I", "M", "I", "E", "N", "T", "O">>, geometry |-> PyList(<< PyNum(300), PyNum(100), PyNum(380), PyNum(150) >>)],
          [value |-> <<"0", "5", "/", "0", "7", "/", "1", "9", "9", "0">>, geometry |-> PyList(<< PyNum(400), PyNum(100), PyNum(480), PyNum(150) >>)],
          [value |-> <<"S", "E", "X", "O">>, geometry |-> PyList(<< PyNum(500), PyNum(100), PyNum(580), PyNum(150) >>)],
          [value |-> <<"H">>, geometry |-> PyList(<< PyNum(600), PyNum(100), PyNum(680), PyNum(150) >>)] >>],
      \* a word that starts within the margin right of the label
      [words |-> <<
          [value |-> <<"F", "e", "c", "h", "a">>, geometry |-> PyList(<< PyNum(0), PyNum(200), PyNum(80), PyNum(250) >>)],
          [value |-> <<"d", "e">>, geometry |-> PyList(<< PyNum(100), PyNum(200), PyNum(180), PyNum(250) >>)],
          [value |-> <<"n", "a", "c", "i", "m", "i", "e", "n", "t", "o">>, geometry |-> PyList(<< PyNum(200), PyNum(200), PyNum(280), PyNum(250) >>)],
          [value |-> <<"0", "5", "/", "0", "7", "/", "1", "9", "9", "0">>, geometry |-> PyList(<< PyNum(285), PyNum(200), PyNum(360), PyNum(250) >>)],
          [value |-> <<"1", "9", "9", "0">>, geometry |-> PyList(<< PyNum(300), PyNum(200), PyNum(380), PyNum(250) >>)],
          [value |-> <<"S", "E", "X", "O">>, geometry |-> PyList(<< PyNum(400), PyNum(200), PyNum(480), PyNum(250) >>)],
          [value |-> <<"H">>, geometry |-> PyList(<< PyNum(500), PyNum(200), PyNum(580), PyNum(250) >>)] >>],
      \* a label word within the margin, then two values around NOMBRES
      [words |-> <<
          [value |-> <<"N", "O", "M", "B", "R", "E">>, geometry |-> PyList(<< PyNum(0), PyNum(300), PyNum(80), PyNum(350) >>)],
          [value |-> <<"S", "E", "X", "O">>, geometry |-> PyList(<< PyNum(85), PyNum(300), PyNum(160), PyNum(350) >>)],
          [value |-> <<"L", "U", "Z">>, geometry |-> PyList(<< PyNum(200), PyNum(300), PyNum(280), PyNum(350) >>)],
          [value |-> <<"N", "o", "m", "b", "r", "e", "s">>, geometry |-> PyList(<< PyNum(300), PyNum(300), PyNum(380), PyNum(350) >>)],
          [value |-> <<"A", "N", "A">>, geometry |-> PyList(<< PyNum(400), PyNum(300), PyNum(480), PyNum(350) >>)] >>],
      \* a label alone on its line
      [words |-> <<
          [value |-> <<"D", "O", "M", "I", "C", "I", "L", "I", "O">>, geometry |-> PyList(<< PyNum(0), PyNum(400), PyNum(80), PyNum(450) >>)] >>],
      \* a line of values
      [words |-> <<
          [value |-> <<"c", "a", "l", "l", "e">>, geometry |-> PyList(<< PyNum(0), PyNum(500), PyNum(80), PyNum(550) >>)],
          [value |-> <<"5">>, geometry |-> PyList(<< PyNum(100), PyNum(500), PyNum(180), PyNum(550) >>)] >>],
      \* a label as third word
      [words |-> <<
          [value |-> <<"C", "O", "L">>, geometry |-> PyList(<< PyNum(0), PyNum(600), PyNum(80), PyNum(650) >>)],
          [value |-> <<"C", "E", "N", "T", "R", "O">>, geometry |-> PyList(<< PyNum(100), PyNum(600), PyNum(180), PyNum(650) >>)],
          [value |-> <<"C", "U", "R", "P">>, geometry |-> PyList(<< PyNum(200), PyNum(600), PyNum(280), PyNum(650) >>)] >>],
      \* a label as fourth word
      [words |-> <<
          [value |-> <<"A">>, geometry |-> PyList(<< PyNum(0), PyNum(700), PyNum(80), PyNum(750) >>)],
          [value |-> <<"B">>, geometry |-> PyList(<< PyNum(100), PyNum(700), PyNum(180), PyNum(750) >>)],
          [value |-> <<"C">>, geometry |-> PyList(<< PyNum(200), PyNum(700), PyNum(280), PyNum(750) >>)],
          [value |-> <<"S", "E", "X", "O">>, geometry |-> PyList(<< PyNum(300), PyNum(700), PyNum(380), PyNum(750) >>)] >>]
    >>

\* the fields whose label is looked for
CollectKeys ==
    [ine |-> {"fecha_nacimiento", "nombre", "domicilio"}, curp |-> {"nombre"}]

\* the export with the lines S of CollectLines, line i on page pg[i], one block a page
CollectExport(S, pg) ==
    LET on(p) == Ascending({i \in S : pg[i] = p})
        Blocks(p) == IF on(p) = << >> THEN << >>
                     ELSE << [lines |-> [j \in 1..Len(on(p)) |-> CollectLines[on(p)[j]]]] >>
    IN  [nonempty |-> TRUE, pages |-> [p \in 1..2 |-> [blocks |-> Blocks(p)]]]

collectOthers == <<earlierVars, geomVars, layoutVars, cleanVars, tplVars, repoVars, actaVars>>

CollectInit ==
    /\ kpc = "call"
    /\ k_tipo \in DOMAIN CollectKeys
    /\ \E S \in {X \in SUBSET (1..Len(CollectLines)) : Cardinality(X) <= MaxCollectLines} :
         \E pg \in [S -> 1..2] : k_export = CollectExport(S, pg)
    /\ k_lines = << >>
    /\ k_key = ""
    /\ k_hit = << >>
    /\ k_max = 0
    /\ k_right = << >>
    /\ k_below = << >>
    /\ EarlierIdle
    /\ GeomIdle
    /\ LayoutIdle
    /\ CleanIdle
    /\ TplIdle
    /\ RepoIdle
    /\ ActaIdle

\* lines = _build_lines_from_export(export)
CollectBuild ==
    /\ kpc = "call"
    /\ kpc' = "built"
    /\ k_lines' = _build_lines_from_export(k_export)
    /\ UNCHANGED <<k_tipo, k_export, k_key, k_hit, k_max, k_right, k_below, collectOthers>>

\* hit = _find_label(lines, LABELS[key])
CollectFind ==
    /\ kpc = "built"
    /\ kpc' = "found"
    /\ \E key \in CollectKeys[k_tipo] :
          /\ k_key' = key
          /\ k_hit' = _find_label(k_lines, LabelsOf(k_tipo)[key])
    /\ UNCHANGED <<k_tipo, k_export, k_lines, k_max, k_right, k_below, collectOthers>>

\* _collect_right_same_line(hit, stop_at=label_first_tokens)
CollectRight ==
    /\ kpc = "found"
    /\ k_hit.found
    /\ kpc' = "right"
    /\ k_right' = _collect_right_same_line(k_lines, k_hit, _first_tokens_set(LabelsOf(k_tipo)))
    /\ UNCHANGED <<k_tipo, k_export, k_lines, k_key, k_hit, k_max, k_below, collectOthers>>

\* _collect_below_until_next_label(lines, hit, label_first_tokens, max_lines)
CollectBelow ==
    /\ kpc = "found"
    /\ k_hit.found
    /\ kpc' = "below"
    /\ \E max_lines \in 1..MaxBelowLines :
          /\ k_max' = max_lines
          /\ k_below' = _collect_below_until_next_label(k_lines, k_hit,
                            _first_tokens_set(LabelsOf(k_tipo)), max_lines)
    /\ UNCHANGED <<k_tipo, k_export, k_lines, k_key, k_hit, k_right, collectOthers>>

CollectNext == CollectBuild \/ CollectFind \/ CollectRight \/ CollectBelow

SpecCollect == CollectInit /\ [][CollectNext]_vars

-----------------------------------------------------------------------------
(* Properties of the anchor and of the two collectors *)

RECURSIVE MatchedWords(_, _, _, _)
\* the words an alias matches from word k on: for each token of seq[t..] the
\* first word at or after k that equals it, the next token being looked for
\* after that word; {} when a token has no such word
MatchedWords(words, seq, t, k) ==
    IF t > Len(seq) THEN {}
    ELSE LET here == {i \in k..Len(words) : words[i].norm = seq[t]}
         IN  IF here = {} THEN {}
             ELSE IF t = Len(seq) THEN {SetMin(here)}
             ELSE IF MatchedWords(words, seq, t + 1, SetMin(here) + 1) = {} THEN {}
             ELSE {SetMin(here)} \cup MatchedWords(words, seq, t + 1, SetMin(here) + 1)

\* the words of the anchor's line that matched the tokens of the alias found
AnchorWords(lines, aliases, hit) ==
    LET ws == lines[hit.line].words
        ok == {a \in 1..Len(aliases) :
                 /\ ws[hit.line_idx].norm = aliases[a][1]
                 /\ MatchedWords(ws, aliases[a], 1, hit.line_idx) # {}}
    IN  MatchedWords(ws, aliases[SetMin(ok)], 1, hit.line_idx)

CollectFound == kpc \in {"found", "right", "below"} /\ k_hit.found

\* C21: the interval (xmin, xmax) of the anchor is the union of the matched
\* label words only: xmin is their least left edge and xmax their greatest
\* right edge, whatever words were skipped between them
C21_AnchorSpansMatchedTokens ==
    CollectFound =>
        LET ws == k_lines[k_hit.line].words
            matched == AnchorWords(k_lines, LabelsOf(k_tipo)[k_key], k_hit)
        IN  /\ k_hit.xmin = SetMin({ws[i].xmin : i \in matched})
            /\ k_hit.xmax = SetMax({ws[i].xmax : i \in matched})

\* the label first tokens of the document type
StopTokens == _first_tokens_set(LabelsOf(k_tipo))

\* the words of the anchor's line that start more than the margin right of the anchor
RightOfAnchor ==
    {i \in 1..Len(k_lines[k_hit.line].words) :
        k_lines[k_hit.line].words[i].xmin > k_hit.xmax + 10}

\* those of them that come before the first one that is a label first token
RightValueWords ==
    {i \in RightOfAnchor :
        \A j \in RightOfAnchor : j <= i => k_lines[k_hit.line].words[j].norm \notin StopTokens}

\* the cleaned text of the words idx of line l, in line order, blank-separated
TextOfWords(l, idx) ==
    _clean_inline(StrJoin([r \in 1..Cardinality(idx) |->
                              k_lines[l].words[Ascending(idx)[r]].text], << " " >>))

\* C22: the value collected right of the anchor is made, in line order, of
\* exactly the words of the anchor's line that start more than the margin right
\* of the anchor and come before the first such word that is a label first
\* token; none of them is a label first token or starts at or left of the anchor
C22_RightOfAnchorUntilLabel ==
    kpc = "right" =>
        /\ k_right = TextOfWords(k_hit.line, RightValueWords)
        /\ \A i \in RightValueWords :
              /\ k_lines[k_hit.line].words[i].norm \notin StopTokens
              /\ k_lines[k_hit.line].words[i].xmin > k_hit.xmax

\* words were passed over within the margin, words were collected and a label
\* first token right of them ended the collection
C22_Witness ==
    /\ kpc = "right"
    /\ k_right # EmptyStr
    /\ \E i \in RightOfAnchor : i \notin RightValueWords
    /\ \E i \in 1..Len(k_lines[k_hit.line].words) :
          /\ i > k_hit.k1
          /\ i \notin RightOfAnchor

\* the lines after the anchor's line on the anchor's page, in reading order
LinesBelow == {l \in 1..Len(k_lines) : l > k_hit.line /\ k_lines[l].page = k_hit.page}

\* one of the first three words of line l is a label first token
StartsWithLabel(l) ==
    \E i \in 1..Len(k_lines[l].words) : i <= 3 /\ k_lines[l].words[i].norm \in StopTokens

\* the lines taken: those below, before the first that starts with a label,
\* and no more than max_lines of them
LinesTaken ==
    {l \in LinesBelow :
        /\ \A m \in LinesBelow : m <= l => ~StartsWithLabel(m)
        /\ Cardinality({m \in LinesBelow : m <= l}) <= k_max}

\* C23: the value collected below the anchor is made of the words of the lines
\* that follow the anchor's line on the anchor's page, up to the first line that
\* starts with a label and up to max_lines lines; no other line contributes
C23_BelowUntilLabelOrLimit ==
    kpc = "below" =>
        /\ k_below = _clean_inline(StrJoin(
              Flatten([r \in 1..Cardinality(LinesTaken) |->
                  [i \in 1..Len(k_lines[Ascending(LinesTaken)[r]].words) |->
                      k_lines[Ascending(LinesTaken)[r]].words[i].text]]), << " " >>))
        /\ Cardinality(LinesTaken) <= k_max
        /\ \A l \in LinesTaken : l > k_hit.line /\ k_lines[l].page = k_hit.page

\* a line was taken although a line of another page follows the anchor, and
\* the limit or a label line kept a line of the page out
C23_Witness ==
    /\ kpc = "below"
    /\ k_below # EmptyStr
    /\ \E l \in 1..Len(k_lines) : l > k_hit.line /\ k_lines[l].page # k_hit.page
    /\ LinesTaken # LinesBelow

(***************************************************************************)
(* The document repository (storage/repository.py): documents and one      *)
(* index per user, kept as objects of a bucket.                            *)
(***************************************************************************)

\* documents created
MaxRepoDocs == 2

\* time.time() is read while it is below this value
MaxClock == 3

\* save operations running at the same time
NumSavers == 2

\* the users of the sequential calls and those of the concurrent saves
RepoUsers == {"u1"}

RaceUsers == {"u1", "u2"}

RepoTypes == {"ine", "curp"}

\* the fields map of a document, taken as a whole
RepoFields == {"f0", "f1"}

DocIds == 1..MaxRepoDocs

\* None: no object under the key
NoDoc == [archivoID |-> 0]

\* an index object that is missing, {"usuarioID": ..., "docs": {}}
EmptyIndex == [t \in RepoTypes |-> << >>]

\* readings of time.time() after the reading t: the clock does not go back
Ticks(t) == {t, t + 1}

_load_user_index(users, usuarioID) == users[usuarioID]

\* an identifier no stored document has
_new_id(docs) == CHOOSE i \in DocIds : docs[i] = NoDoc /\ \A j \in 1..(i - 1) : docs[j] # NoDoc

load(docs, archivoID) == docs[archivoID]

\* the list of the type with the entry appended and no filter
IndexWithAppendOnly(idx, tipo, archivoID, ts) ==
    [idx EXCEPT ![tipo] = Append(idx[tipo], [archivoID |-> archivoID, ts |-> ts])]

\* the list of the type without the entries of archivoID, then its new entry
IndexWith(idx, tipo, archivoID, ts) ==
    [idx EXCEPT ![tipo] = Append(SelectSeq(idx[tipo], LAMBDA e : e.archivoID # archivoID),
                                 [archivoID |-> archivoID, ts |-> ts])]

\* save(doc) with time.time() = ts: the bucket afterwards and the identifier
save(docs, users, doc, ts) ==
    IF doc.usuarioID = "" \/ doc.tipo_documento = ""
    THEN [err |-> TRUE, docs |-> docs, users |-> users, archivoID |-> 0, doc |-> NoDoc]
    ELSE LET archivoID == IF doc.archivoID # 0 THEN doc.archivoID ELSE _new_id(docs)
             stored == [doc EXCEPT !.archivoID = archivoID, !.ts = ts]
             idx == IndexWith(_load_user_index(users, doc.usuarioID), doc.tipo_documento, archivoID, ts)
         IN  [err |-> FALSE,
              docs |-> [docs EXCEPT ![archivoID] = stored],
              users |-> [users EXCEPT ![doc.usuarioID] = idx],
              archivoID |-> archivoID,
              doc |-> stored]

\* patch(archivoID, patch_data): time.time() is read as t1, then as t2 in save
patch(docs, users, archivoID, patch_data, t1, t2) ==
    LET data == load(docs, archivoID)
    IN  IF data = NoDoc
        THEN [err |-> FALSE, docs |-> docs, users |-> users, archivoID |-> 0, doc |-> NoDoc]
        ELSE save(docs, users,
                  [[k \in DOMAIN data |-> IF k \in DOMAIN patch_data THEN patch_data[k] ELSE data[k]]
                       EXCEPT !.archivoID = archivoID, !.ts = t1],
                  t2)

\* max(entries, key=ts): the first of the entries with the greatest ts
MaxEntry(entries) ==
    entries[CHOOSE i \in 1..Len(entries) :
                /\ \A j \in 1..Len(entries) : entries[j].ts <= entries[i].ts
                /\ \A j \in 1..(i - 1) : entries[j].ts < entries[i].ts]

load_by_user(docs, users, usuarioID, tipo) ==
    LET entries == _load_user_index(users, usuarioID)[tipo]
    IN  IF entries = << >> THEN NoDoc ELSE load(docs, MaxEntry(entries).archivoID)

repoOthers == <<earlierVars, geomVars, layoutVars, cleanVars, tplVars, collectVars, actaVars>>

RepoStart(users) ==
    /\ bucket_docs = [i \in DocIds |-> NoDoc]
    /\ bucket_users = [u \in users |-> EmptyIndex]
    /\ now = 0
    /\ r_recent = [u \in users |-> [t \in RepoTypes |-> 0]]
    /\ r_last = [op |-> "start"]
    /\ EarlierIdle
    /\ GeomIdle
    /\ LayoutIdle
    /\ CleanIdle
    /\ TplIdle
    /\ CollectIdle
    /\ ActaIdle

RepoInit ==
    /\ RepoStart(RepoUsers)
    /\ spc = << >>
    /\ s_doc = << >>
    /\ s_idx = << >>

\* the bucket and the record of the last document after a save or a patch
Stored(out) ==
    /\ bucket_docs' = out.docs
    /\ bucket_users' = out.users
    /\ r_recent' = IF out.doc = NoDoc THEN r_recent
                   ELSE [r_recent EXCEPT ![out.doc.usuarioID][out.doc.tipo_documento] = out.archivoID]

\* extract: archivoID = save(payload), the payload carrying no archivoID
RepoSave ==
    /\ now < MaxClock
    /\ \E i \in DocIds : bucket_docs[i] = NoDoc
    /\ \E u \in RepoUsers \cup {""}, t \in RepoTypes, f \in RepoFields, ts \in Ticks(now) :
         LET out == save(bucket_docs, bucket_users,
                         [archivoID |-> 0, usuarioID |-> u, tipo_documento |-> t, ts |-> 0, fields |-> f], ts)
         IN  /\ Stored(out)
             /\ now' = IF out.err THEN now ELSE ts
             /\ r_last' = [op |-> "save", usuarioID |-> u, tipo_documento |-> t,
                           err |-> out.err, result |-> out.doc]
    /\ UNCHANGED <<spc, s_doc, s_idx, repoOthers>>

\* components_patch_by_doc: rec = load(archivoID), its fields updated, patch(archivoID, rec)
RepoPatchByDoc ==
    /\ now < MaxClock
    /\ \E a \in DocIds, f \in RepoFields, t1 \in Ticks(now) : \E t2 \in Ticks(t1) :
         LET rec == load(bucket_docs, a)
             out == patch(bucket_docs, bucket_users, a, [rec EXCEPT !.fields = f], t1, t2)
         IN  IF rec = NoDoc
             THEN /\ r_last' = [op |-> "patch_by_doc", archivoID |-> a, err |-> TRUE, result |-> NoDoc]
                  /\ UNCHANGED <<bucket_docs, bucket_users, now, r_recent>>
             ELSE /\ Stored(out)
                  /\ now' = t2
                  /\ r_last' = [op |-> "patch_by_doc", archivoID |-> a, err |-> FALSE, result |-> out.doc]
    /\ UNCHANGED <<spc, s_doc, s_idx, repoOthers>>

\* components_get_by_user: rec = load_by_user(usuarioID, tipo_documento, latest=True)
RepoGetByUser ==
    /\ \E u \in RepoUsers, t \in RepoTypes :
         LET rec == load_by_user(bucket_docs, bucket_users, u, t)
         IN  r_last' = [op |-> "get_by_user", usuarioID |-> u, tipo_documento |-> t,
                        err |-> (rec = NoDoc), result |-> rec, recent |-> r_recent[u][t]]
    /\ UNCHANGED <<bucket_docs, bucket_users, now, r_recent, spc, s_doc, s_idx, repoOthers>>

\* components_patch_by_user: the document of load_by_user, its fields updated, patched
RepoPatchByUser ==
    /\ now < MaxClock
    /\ \E u \in RepoUsers, t \in RepoTypes, f \in RepoFields, t1 \in Ticks(now) : \E t2 \in Ticks(t1) :
         LET rec == load_by_user(bucket_docs, bucket_users, u, t)
             out == patch(bucket_docs, bucket_users, rec.archivoID, [rec EXCEPT !.fields = f], t1, t2)
         IN  IF rec = NoDoc
             THEN /\ r_last' = [op |-> "patch_by_user", usuarioID |-> u, tipo_documento |-> t,
                                err |-> TRUE, result |-> NoDoc, recent |-> r_recent[u][t]]
                  /\ UNCHANGED <<bucket_docs, bucket_users, now, r_recent>>
             ELSE /\ Stored(out)
                  /\ now' = t2
                  /\ r_last' = [op |-> "patch_by_user", usuarioID |-> u, tipo_documento |-> t,
                                err |-> FALSE, result |-> out.doc, recent |-> r_recent[u][t]]
    /\ UNCHANGED <<spc, s_doc, s_idx, repoOthers>>

RepoNext == RepoSave \/ RepoPatchByDoc \/ RepoGetByUser \/ RepoPatchByUser

SpecRepo == RepoInit /\ [][RepoNext]_vars

\* the entries of a user's index under a type
Entries(u, t) == bucket_users[u][t]

Indexed(u, t) == {bucket_docs[Entries(u, t)[i].archivoID] : i \in 1..Len(Entries(u, t))}

\* C28: load_by_user(latest=True) gives nothing when no document is indexed
\* for the user and type, and otherwise the indexed document with the
\* greatest timestamp, which is the one saved or patched last; the
\* components endpoints by user read and patch that document.
C28_LatestIsMostRecent ==
    (r_last.op \in {"get_by_user", "patch_by_user"}) =>
        IF r_last.recent = 0
        THEN r_last.result = NoDoc
        ELSE /\ r_last.result # NoDoc
             /\ r_last.result.archivoID = r_last.recent
             /\ r_last.result \in Indexed(r_last.usuarioID, r_last.tipo_documento)
             /\ \A doc \in Indexed(r_last.usuarioID, r_last.tipo_documento) : doc.ts <= r_last.result.ts

(***************************************************************************)
(* Two saves at the same time: each one is its three bucket calls           *)
(***************************************************************************)

Savers == 1..NumSavers

RaceInit ==
    /\ RepoStart(RaceUsers)
    /\ spc = [p \in Savers |-> "call"]
    /\ s_doc = [p \in Savers |-> NoDoc]
    /\ s_idx = [p \in Savers |-> EmptyIndex]

\* lines 112-119: the arguments are checked, the identifier and the time are set
SaveEnter(p) ==
    /\ spc[p] = "call"
    /\ now < MaxClock
    /\ \E u \in RaceUsers, t \in RepoTypes, ts \in Ticks(now) :
         /\ s_doc' = [s_doc EXCEPT ![p] = [archivoID |-> p, usuarioID |-> u, tipo_documento |-> t,
                                           ts |-> ts, fields |-> "f0"]]
         /\ now' = ts
    /\ spc' = [spc EXCEPT ![p] = "put"]
    /\ UNCHANGED <<bucket_docs, bucket_users, r_recent, r_last, s_idx, repoOthers>>

\* line 122: _s3_put_json(key, doc)
SavePutDoc(p) ==
    /\ spc[p] = "put"
    /\ bucket_docs' = [bucket_docs EXCEPT ![s_doc[p].archivoID] = s_doc[p]]
    /\ spc' = [spc EXCEPT ![p] = "load"]
    /\ UNCHANGED <<bucket_users, now, r_recent, r_last, s_doc, s_idx, repoOthers>>

\* line 124: idx = _load_user_index(usuarioID)
SaveLoadIndex(p) ==
    /\ spc[p] = "load"
    /\ s_idx' = [s_idx EXCEPT ![p] = _load_user_index(bucket_users, s_doc[p].usuarioID)]
    /\ spc' = [spc EXCEPT ![p] = "write"]
    /\ UNCHANGED <<bucket_docs, bucket_users, now, r_recent, r_last, s_doc, repoOthers>>

\* lines 125-130: the entry is put into idx and idx is written
SaveWriteIndex(p) ==
    /\ spc[p] = "write"
    /\ bucket_users' = [bucket_users EXCEPT ![s_doc[p].usuarioID] =
                            IndexWith(s_idx[p], s_doc[p].tipo_documento, s_doc[p].archivoID, s_doc[p].ts)]
    /\ r_recent' = [r_recent EXCEPT ![s_doc[p].usuarioID][s_doc[p].tipo_documento] = s_doc[p].archivoID]
    /\ spc' = [spc EXCEPT ![p] = "done"]
    /\ UNCHANGED <<bucket_docs, now, r_last, s_doc, s_idx, repoOthers>>

RaceNext == \E p \in Savers : SaveEnter(p) \/ SavePutDoc(p) \/ SaveLoadIndex(p) \/ SaveWriteIndex(p)

SpecRepoRace == RaceInit /\ [][RaceNext]_vars

\* the save of p has returned and its document is in the index of its user
Listed(p) ==
    \E i \in 1..Len(Entries(s_doc[p].usuarioID, s_doc[p].tipo_documento)) :
        Entries(s_doc[p].usuarioID, s_doc[p].tipo_documento)[i].archivoID = s_doc[p].archivoID

\* C26: once the concurrent saves have all returned, the index of the user
\* lists the document of each of them, whatever the interleaving was.
C26_ConcurrentSavesBothListed ==
    (\A p \in Savers : spc[p] = "done") => \A p \in Savers : Listed(p)

-----------------------------------------------------------------------------
(* The text-only strategy and the merge on the text of an acta *)

\* at most this many lines in a text
MaxActaLines == 3

\* the lines a text is made of
ActaPool ==
    << <<"S", "E", "X", "O">>,
       <<"S", "e", "x", "o", " ">>,
       <<"M">>,
       <<"M", "U", "J", "E", "R">>,
       <<"H">>,
       <<"H", "O", "M", "B", "R", "E">>,
       <<"L", "U", "Z", ",", " ", "M">>,
       <<"F", "E", "C", "H", "A", " ", "D", "E", " ", "N", "A", "C", "I", "M", "I", "E", "N", "T", "O">>,
       EmptyStr >>

\* the sexo a template crop may give: nothing, an unreadable one, a valid one
ActaTemplateSexo == {EmptyDict, [sexo |-> << "X" >>], [sexo |-> << "H" >>]}

ActaTexts ==
    {StrJoin([i \in 1..Len(sel) |-> ActaPool[sel[i]]], << "\n" >>) :
        sel \in UNION {[1..m -> 1..Len(ActaPool)] : m \in 1..MaxActaLines}}

actaOthers == <<earlierVars, geomVars, layoutVars, cleanVars, tplVars, collectVars, repoVars>>

ActaInit ==
    /\ apc = "call"
    /\ a_raw_text \in ActaTexts
    /\ a_text = EmptyDict
    /\ a_tpl = EmptyDict
    /\ a_out = << >>
    /\ EarlierIdle
    /\ GeomIdle
    /\ LayoutIdle
    /\ CleanIdle
    /\ TplIdle
    /\ CollectIdle
    /\ RepoIdle

\* fields_text = extract_fields_text_only(detected_type, raw_text)
ActaTextOnly ==
    /\ apc = "call"
    /\ a_text' = extract_fields_text_only("acta", a_raw_text)
    /\ apc' = "text"
    /\ UNCHANGED <<a_raw_text, a_tpl, a_out, actaOthers>>

\* fields, decisions = smart_merge_fields(detected_type, fields_tpl, fields_auto, fields_text)
ActaMerge ==
    /\ apc = "text"
    /\ \E tpl \in ActaTemplateSexo :
         /\ a_tpl' = tpl
         /\ a_out' = smart_merge_fields("acta", tpl, EmptyDict, a_text)
    /\ apc' = "merged"
    /\ UNCHANGED <<a_raw_text, a_text, actaOthers>>

ActaNext == ActaTextOnly \/ ActaMerge

SpecActa == ActaInit /\ [][ActaNext]_vars

\* the first standalone sex token of a line, << >> if it has none
SexTokenOf(line) ==
    LET runs == WordRunsFrom(line, 1)
        hits == {i \in 1..Len(runs) : runs[i] \in FemaleTokens \cup MaleTokens}
    IN  IF hits = {} THEN EmptyStr ELSE runs[SetMin(hits)]

\* the sex token of the candidate line: of the nearest line above the SEXO
\* label that holds one
ActaSexToken(raw) ==
    LET cands == ActaSexoCandidates(TextU(raw))
        hits  == {c \in 1..Len(cands) : SexTokenOf(cands[c]) # EmptyStr}
    IN  IF hits = {} THEN EmptyStr ELSE SexTokenOf(cands[SetMin(hits)])

\* a sexo value and a token name the same sex
SameSex(v, tok) ==
    /\ tok \in FemaleTokens => v \in FemaleTokens
    /\ tok \in MaleTokens => v \in MaleTokens

\* the decision of the merge on sexo
SexoDecision(out) ==
    out.decisions[CHOOSE i \in 1..Len(out.decisions) : out.decisions[i].field = "sexo"]

\* C30: for an acta the text-only sexo names the sex of the token of the
\* candidate line (M or MUJER female, H or HOMBRE male), and so does the merged
\* sexo whenever the merge takes it from the text.
C30_ActaSexoMatchesToken ==
    (apc # "call" /\ ActaSexToken(a_raw_text) # EmptyStr) =>
        /\ "sexo" \in DOMAIN a_text
        /\ SameSex(a_text["sexo"], ActaSexToken(a_raw_text))
        /\ (apc = "merged" /\ SexoDecision(a_out).chosen_from = "text") =>
               SameSex(a_out.fields["sexo"], ActaSexToken(a_raw_text))

=============================================================================
